---- MODULE Spec2Model ----
(***************************************************************************)
(* Milkbox AI Toolbox: the tool manifest (tools.yaml), the CI smoke check  *)
(* (scripts/smoke_tools.py), the interactive dispatchers                    *)
(* (streamlit_app/app.py, streamlit_app/utils/tool_loader.py) and the       *)
(* regulatory watcher (scripts/reg_watch.py), as state machines.            *)
(*                                                                          *)
(* One behaviour is one process: prog says which program the process runs.  *)
(* The manifest and the files under streamlit_app/tools are the process's   *)
(* environment; they are chosen in Init and do not change while it runs.    *)
(***************************************************************************)
EXTENDS Integers, Sequences, FiniteSets

\* ------------------------------------------------------------------ bounds
MaxEntries == 2
MaxDocs == 2
MaxSig == 2
MaxRuns == 2

\* ------------------------------------------------------------ environment
Keys == {"a", "b"}

\* A dotted module path "<pkg>.<name>"; NoModule is an omitted module field.
ToolsPath(name) == [pkg |-> "tools", name |-> name]
NoModule == [pkg |-> "", name |-> ""]
SmokeModules == {ToolsPath(n) : n \in Keys}

\* What is on disk for the module tools.<name>:
\*   absent          neither tools/<name>.py nor tools/<name>/ exists
\*   file_*          tools/<name>.py exists
\*   pkg_*           tools/<name>/__init__.py exists (no tools/<name>.py)
\*   *_valid         imports, defines render()
\*   *_norender      imports, defines no callable render
\*   *_reqarg        imports, defines render(x) with x required
\*   *_kwonly        imports, defines render(*, x) with x required
\*   *_depmissing    exists, but its own import of a missing dependency
\*                   raises ModuleNotFoundError while it is executed
\*   *_broken        exists, but raises another exception while it is
\*                   executed (SyntaxError, ImportError, ...)
DiskStates ==
  {"absent", "file_valid", "file_norender", "file_reqarg", "file_kwonly", "file_depmissing",
   "file_broken", "pkg_valid", "pkg_depmissing"}
IsFile(s) ==
  s \in {"file_valid", "file_norender", "file_reqarg", "file_kwonly", "file_depmissing", "file_broken"}
IsPkg(s) == s \in {"pkg_valid", "pkg_depmissing"}
Exists(s) == s # "absent"
Imports(s) == s \in {"file_valid", "file_norender", "file_reqarg", "file_kwonly", "pkg_valid"}
DepMissing(s) == s \in {"file_depmissing", "pkg_depmissing"}
\* The render attribute of a module that imported.
RenderOf(s) ==
  CASE s \in {"file_valid", "pkg_valid"} -> "zeroarg"
    [] s = "file_reqarg" -> "reqarg"
    [] s = "file_kwonly" -> "kwonly"
    [] OTHER -> "none"

\* A tools.yaml item. form:
\*   "name"         a bare string (list) / a key with a null value (mapping)
\*   "keyed"        {key: k, module: m, enabled: e} (list) /
\*                  k: {module: m, enabled: e} (mapping, single-key list item)
\*   "single_str"   k: "m" (mapping, single-key list item)
\*   "bad"          an item of an unsupported type or shape
\* enabled is the item's enabled field: absent (the default, true) or false;
\* section: the item carries a non-empty section field (read by the app only).
EnabledRaw == {"absent", "false"}
ItemsOver(modules) ==
  [form : {"name"}, key : Keys, module : {NoModule}, enabled : {"absent"}, section : {FALSE}]
    \cup [form : {"keyed"}, key : Keys, module : modules \cup {NoModule}, enabled : EnabledRaw,
          section : {FALSE}]
    \cup [form : {"single_str"}, key : Keys, module : modules, enabled : {"absent"},
          section : {FALSE}]
    \cup [form : {"bad"}, key : {"a"}, module : {NoModule}, enabled : {"absent"},
          section : {FALSE}]

SeqsUpTo(S, n) == UNION {[1..k -> S] : k \in 0..n}
DistinctKeys(items) == \A i, j \in 1..Len(items) : items[i].key = items[j].key => i = j

\* tools.yaml: missing, unparseable, or a parsed document whose "tools"
\* value is a scalar (a number), a list of items or a mapping (whose keys
\* are distinct).
ManifestsOver(items) ==
  [shape : {"missing", "unparseable", "scalar"}, items : {<<>>}]
    \cup [shape : {"list"}, items : SeqsUpTo(items, MaxEntries)]
    \cup [shape : {"map"}, items : {t \in SeqsUpTo(items, MaxEntries) : DistinctKeys(t)}]

VARIABLES
  prog,        \* the program this process runs
  toolsYaml,   \* the manifest file
  disk,        \* name -> DiskStates: streamlit_app/tools on disk
  pc,          \* position of the process
  exitCode,    \* the process's exit code, -1 while it runs
  entries,     \* smoke_tools: the dict built by _load_tools_entries, in insertion order
  warnings,    \* smoke_tools: the ::warning:: lines printed while loading
  checked,     \* smoke_tools: one record per entry main has looked at
  failures,    \* smoke_tools.main: failures
  successes,   \* smoke_tools.main: successes
  skips,       \* smoke_tools.main: skips
  session,     \* app: st.session_state["selected_tool"], NoKey when unset
  sysModules,  \* app: name -> the render attribute of a module that
               \*      _load_module_from_file left in sys.modules, "unset" if none
  last,        \* app: what the latest dispatch did
  prev,        \* app: key and outcome of the dispatch before it
  watchlist,   \* reg_watch: standards/watchlist.yaml
  stateFile,   \* reg_watch: standards/.reg_state.json
  logMd,       \* reg_watch: standards/watch_log.md, one element per section
  run,         \* reg_watch: the number of this run, its time.time()
  docs,        \* reg_watch.main: docs
  state,       \* reg_watch.main: state
  updated,     \* reg_watch.main: updated
  errors,      \* reg_watch.main: errors
  fetched,     \* reg_watch: the documents main has looked at in this run
  writes,      \* reg_watch: the files this run has written, in order
  deptsYaml,   \* sop_watch: standards/departments.yaml
  sopFiles,    \* sop_watch: the stems of the files under the sop_dir
  sopDepts,    \* sop_watch.main: depts
  summary,     \* sop_watch.main: summary["departments"]
  sopOut,      \* sop_watch: standards/sop_state.json
  healthEnv,   \* health_report: package markers present, streamlit_app on sys.path
  toolsList,   \* health_report.main: tools_list
  report,      \* health_report.main: report["checks"]
  reportOut,   \* health_report: the report files are written
  warToken,    \* war_room: GITHUB_TOKEN or GH_TOKEN is set
  warNet,      \* war_room: what the network did during the latest render
  statuses,    \* war_room.render: statuses, workflow -> [conclusion, source]
  httpLog,     \* war_room: the requests of the latest render, in order
  repoYaml,    \* builder: tools.yaml on the GitHub branch
  repoFiles,   \* builder: the keys k with streamlit_app/tools/<k>.py on the branch
  sess,        \* builder: per browser session, where its render() stands
  submits,     \* builder: the number of forms submitted so far
  ydata,       \* manifest round trip: the tools list handed to save_yaml_to_main
  yamlText,    \* manifest round trip: the text of tools.yaml once written
  cleaned,     \* manifest round trip: normalize_tools of the first load
  reparsed,    \* manifest round trip: normalize_tools of the second load
  prevFetched, \* reg_watch: what the run before this one fetched
  appImport,   \* health_app: what __import__("app") does
  healthy,     \* health_app: the HEALTHY line was printed
  smokeRet,    \* health_app: what smoke.main() returned, -1 before it has
  leadsTable,  \* leads: the rows of the leads table in the SQLite file
  leadsDf,     \* leads: the rows of the data frame of the latest save
  leadsMsg,    \* leads: what the latest save showed
  cvData,      \* cv_builder_pro: st.session_state.cvpro, the bullets of each entry
  cvLast       \* cv_builder_pro: the latest click

envVars == <<prog, toolsYaml, disk>>
smokeVars == <<entries, warnings, checked, failures, successes, skips>>
appVars == <<session, sysModules, last, prev>>
regFiles == <<watchlist, stateFile, logMd>>
regVars == <<run, docs, state, updated, errors, fetched, writes, prevFetched>>
sopVars == <<deptsYaml, sopFiles, sopDepts, summary, sopOut>>
healthVars == <<healthEnv, toolsList, report, reportOut>>
warVars == <<warToken, warNet, statuses, httpLog>>
builderVars == <<repoYaml, repoFiles, sess, submits>>
rtVars == <<ydata, yamlText, cleaned, reparsed>>
haVars == <<appImport, healthy, smokeRet>>
leadsVars == <<leadsTable, leadsDf, leadsMsg>>
cvVars == <<cvData, cvLast>>
pageVars == <<haVars, leadsVars, cvVars>>
scriptVars == <<sopVars, healthVars, warVars, builderVars, rtVars, pageVars>>
vars == <<envVars, pc, exitCode, smokeVars, appVars, regFiles, regVars, scriptVars>>

NoKey == ""
\* No dispatch has happened yet.
NoDispatch ==
  [by |-> "none", key |-> NoKey, module |-> NoModule, primary |-> "none", fallback |-> "none",
   outcome |-> "none", msgs |-> <<>>, calls |-> 0, caught |-> "none", raised |-> "none"]
AppIdle ==
  /\ session = NoKey
  /\ sysModules = [n \in Keys |-> "unset"]
  /\ last = NoDispatch
  /\ prev = [key |-> NoKey, outcome |-> "none"]

DocKeys == {"d1", "d2"}
Sigs == 1..MaxSig
\* A state record: signature 0 stands for no record (no signature).
NoRecord == [signature |-> 0, checked_at |-> 0]
EmptyState == [k \in DocKeys |-> NoRecord]
RegIdle ==
  /\ watchlist = [kind |-> "missing", docs |-> <<>>]
  /\ stateFile = [kind |-> "missing", data |-> EmptyState]
  /\ logMd = <<>>
  /\ run = 0
  /\ docs = <<>>
  /\ state = [kind |-> "object", data |-> EmptyState]
  /\ updated = <<>>
  /\ errors = <<>>
  /\ fetched = <<>>
  /\ prevFetched = <<>>
  /\ writes = <<>>

\* sop_state.json before sop_watch has written it.
NotWritten == <<[present |-> <<"-">>, missing |-> <<"-">>]>>
SopIdle ==
  /\ deptsYaml = [kind |-> "missing", depts |-> <<>>]
  /\ sopFiles = {}
  /\ sopDepts = <<>>
  /\ summary = <<>>
  /\ sopOut = NotWritten
HealthIdle ==
  /\ healthEnv = [markers |-> TRUE, onPath |-> TRUE]
  /\ toolsList = <<>>
  /\ report = <<>>
  /\ reportOut = FALSE
Workflows == {"repo_doctor.yml", "smoke.yml"}
WORKFLOW_ORDER == <<"repo_doctor.yml", "smoke.yml">>
NoStatus == [conclusion |-> "none", source |-> "none"]
QuietNet ==
  [api |-> [status |-> "exception", runs |-> [w \in Workflows |-> "none"]],
   badge |-> [w \in Workflows |-> <<"exception", "exception">>]]
WarIdle ==
  /\ warToken = FALSE
  /\ warNet = QuietNet
  /\ statuses = [w \in Workflows |-> NoStatus]
  /\ httpLog = <<>>
Sessions == {"s1", "s2"}
\* done: the remote writes of the submission that succeeded, in order.
NoSession == [pc |-> "idle", key |-> <<>>, tools |-> <<>>, kind |-> "none", sha |-> 0,
              outcome |-> "none", appended |-> FALSE, done |-> <<>>]
BuilderIdle ==
  /\ repoYaml = [kind |-> "absent", tools |-> <<>>, sha |-> 0]
  /\ repoFiles = {}
  /\ sess = [x \in Sessions |-> NoSession]
  /\ submits = 0
RtIdle == ydata = <<>> /\ yamlText = <<>> /\ cleaned = <<>> /\ reparsed = <<>>
HaIdle == appImport = "none" /\ healthy = FALSE /\ smokeRet = -1
LeadsIdle == leadsTable = <<>> /\ leadsDf = <<>> /\ leadsMsg = "none"
NoClick == [kind |-> "none", section |-> "none", index |-> 0, text |-> <<>>, before |-> <<>>]
CvIdle == cvData = [experience |-> <<>>, education |-> <<>>] /\ cvLast = NoClick
PageIdle == HaIdle /\ LeadsIdle /\ CvIdle
ScriptsIdle == SopIdle /\ HealthIdle /\ WarIdle /\ BuilderIdle /\ RtIdle /\ PageIdle

\* ------------------------------------------------------------ smoke_tools

\* enabled as _add_entry stores it: bool(enabled), enabled defaulting to True.
BoolOf(raw) == raw # "false"

\* _add_entry: out[key] = {...}; a dict keeps the position of a key it has.
AddEntry(out, key, module, enabled) ==
  LET mod == IF module = NoModule THEN ToolsPath(key) ELSE module
      rec == [key |-> key, module |-> mod, enabled |-> BoolOf(enabled)]
  IN IF \E i \in 1..Len(out) : out[i].key = key
       THEN [i \in 1..Len(out) |-> IF out[i].key = key THEN rec ELSE out[i]]
       ELSE Append(out, rec)

\* The loops of _load_tools_entries over the items of the manifest.
RECURSIVE LoadItems(_, _)
LoadItems(items, out) ==
  IF items = <<>> THEN out
  ELSE LET it == Head(items)
       IN LoadItems(Tail(items),
                    IF it.form = "bad" THEN out
                    ELSE AddEntry(out, it.key, it.module, it.enabled))

\* The warnings the loops print: one per item they skip.
LoadWarnings(items) ==
  [i \in 1..Cardinality({j \in 1..Len(items) : items[j].form = "bad"}) |-> "unsupported_item"]

\* importlib.import_module(module_path) with streamlit_app on sys.path:
\* tools.<name> is looked up under streamlit_app/tools; the modules of any
\* other package exist nowhere.
DiskImport(path) ==
  IF path.pkg # "tools" THEN "ModuleNotFoundError"
  ELSE LET s == disk[path.name]
       IN CASE Imports(s) -> "ok"
            [] s = "absent" \/ DepMissing(s) -> "ModuleNotFoundError"
            [] OTHER -> "error"

\* _import_module_primary: importlib.import_module(module_path).
ImportPrimary(path) == DiskImport(path)

\* _import_module_fallback: streamlit_app/tools/<key>.py by path.
ImportFallback(key) ==
  LET s == disk[key]
  IN CASE ~IsFile(s) -> "FileNotFoundError"
       [] Imports(s) -> "ok"
       [] DepMissing(s) -> "ModuleNotFoundError"
       [] OTHER -> "error"

\* _validate_render on the module that was loaded from the state s: the
\* parameters looked at are the positional ones.
ValidateRender(s) ==
  CASE RenderOf(s) = "none" -> "missing_render"
    [] RenderOf(s) = "reqarg" -> "required_positional"
    [] OTHER -> "ok"

\* (a slip: every failed import starts the file fallback)
SmokeFallsBackOnAny(res) == res # "ok"

\* main, line 187: the exception that starts the file fallback.
SmokeFallsBack(res) == res = "ModuleNotFoundError"

\* The body of main's loop for one entry: what it tried and what it recorded.
CheckResult(cfg) ==
  LET base == [key |-> cfg.key, module |-> cfg.module, primary |-> "none",
               fallback |-> "none", verdict |-> "SKIP_disabled"]
      p == ImportPrimary(cfg.module)
      f == ImportFallback(cfg.key)
      loaded == IF p = "ok" THEN disk[cfg.module.name] ELSE disk[cfg.key]
  IN IF ~cfg.enabled THEN base
     ELSE IF p # "ok" /\ ~SmokeFallsBack(p)
       THEN [base EXCEPT !.primary = p, !.verdict = "BAD_import"]
     ELSE IF p # "ok" /\ f = "FileNotFoundError"
       THEN [base EXCEPT !.primary = p, !.fallback = f, !.verdict = "SKIP_absent"]
     ELSE IF p # "ok" /\ f # "ok"
       THEN [base EXCEPT !.primary = p, !.fallback = f, !.verdict = "BAD_import"]
     ELSE [base EXCEPT !.primary = p,
                       !.fallback = IF p = "ok" THEN "none" ELSE f,
                       !.verdict = IF ValidateRender(loaded) = "ok" THEN "OK" ELSE "BAD_render"]

\* The items smoke_tools is run on: a disabled item and a single-key item
\* name the module of their own key.
SmokeItems ==
  {i \in ItemsOver(SmokeModules) :
     /\ i.enabled = "false" => i.module = NoModule
     /\ i.form = "single_str" => i.module = ToolsPath(i.key)}

SmokeInit ==
  /\ prog = "smoke"
  /\ toolsYaml \in ManifestsOver(SmokeItems)
  /\ disk \in [Keys -> DiskStates]
  /\ pc = "load"
  /\ exitCode = -1
  /\ entries = <<>>
  /\ warnings = <<>>
  /\ checked = <<>>
  /\ failures = <<>>
  /\ successes = <<>>
  /\ skips = <<>>
  /\ AppIdle
  /\ RegIdle
  /\ ScriptsIdle

\* _load_tools_entries, called first by main.
SmokeLoad ==
  /\ prog = "smoke" /\ pc = "load"
  /\ LET usable == toolsYaml.shape \in {"list", "map"}
         result == IF usable THEN LoadItems(toolsYaml.items, <<>>) ELSE <<>>
     IN /\ entries' = result
        /\ warnings' = IF usable THEN LoadWarnings(toolsYaml.items) ELSE <<>>
        /\ IF result = <<>>
             THEN pc' = "exit" /\ exitCode' = 1
             ELSE pc' = "loop" /\ exitCode' = exitCode
  /\ UNCHANGED <<envVars, checked, failures, successes, skips, appVars, regFiles, regVars, scriptVars>>

\* One iteration of main's loop over entries.items().
SmokeCheckEntry ==
  /\ prog = "smoke" /\ pc = "loop"
  /\ Len(checked) < Len(entries)
  /\ LET r == CheckResult(entries[Len(checked) + 1])
     IN /\ checked' = Append(checked, r)
        /\ skips' = IF r.verdict \in {"SKIP_disabled", "SKIP_absent"} THEN Append(skips, r.key) ELSE skips
        /\ successes' = IF r.verdict = "OK" THEN Append(successes, r.key) ELSE successes
        /\ failures' = IF r.verdict \in {"BAD_import", "BAD_render"} THEN Append(failures, r.key) ELSE failures
  /\ UNCHANGED <<envVars, pc, exitCode, entries, warnings, appVars, regFiles, regVars, scriptVars>>

\* (a slip: a skipped entry fails the run too)
SmokeReturnCountsSkips(fails) == IF fails # <<>> \/ skips # <<>> THEN 1 ELSE 0

\* The end of main: return 1 if failures else 0; sys.exit(main()).
SmokeReturn(fails) == IF fails # <<>> THEN 1 ELSE 0

SmokeFinish ==
  /\ prog = "smoke" /\ pc = "loop"
  /\ Len(checked) = Len(entries)
  /\ exitCode' = SmokeReturn(failures)
  /\ pc' = "exit"
  /\ UNCHANGED <<envVars, entries, warnings, checked, failures, successes, skips, appVars, regFiles, regVars, scriptVars>>

SmokeNext == SmokeLoad \/ SmokeCheckEntry \/ SmokeFinish

SpecSmoke == SmokeInit /\ [][SmokeNext]_vars

\* ------------------------------------------------- interactive dispatchers
\* The Streamlit process: app.main runs once per page render; utils/tool_loader
\* is the dispatcher of the pages that call it with a key and a module path.

AppModules == SmokeModules \cup {[pkg |-> "ext", name |-> "a"]}
\* The items the app is run on: list items with a key, with a module (one
\* of them in a section) or without.
AppItems ==
  {i \in ItemsOver(AppModules) :
     /\ i.form = "keyed" /\ i.enabled = "absent"
     /\ i.key = "b" => i.module = ToolsPath("b")}
    \cup {[form |-> "keyed", key |-> "b", module |-> ToolsPath("b"), enabled |-> "absent",
           section |-> TRUE]}
AppManifests == {m \in ManifestsOver(AppItems) : m.shape = "map" => Len(m.items) = 1}
PartialRenders == {"none", "zeroarg", "reqarg"}

Msg(level, what) == [level |-> level, what |-> what]

\* importlib.import_module(module_path) in the Streamlit process: a module that
\* _load_module_from_file left in sys.modules is returned as it is.
ImportModule(path) ==
  IF path.pkg = "tools" /\ sysModules[path.name] # "unset"
    THEN [res |-> "ok", render |-> sysModules[path.name]]
  ELSE [res |-> DiskImport(path),
        render |-> IF DiskImport(path) = "ok" THEN RenderOf(disk[path.name]) ELSE "none"]

\* Executing the file or package __init__ in disk state s (exec_module).
ExecResult(s) ==
  CASE Imports(s) -> "ok"
    [] DepMissing(s) -> "ModuleNotFoundError"
    [] OTHER -> "error"

\* tool_loader.safe_import_module, line 23: the exception that starts the
\* file fallback.
LoaderFallsBack(res) == res = "ModuleNotFoundError"

\* tool_loader.safe_import_module: found/render describe the module returned
\* (found = FALSE is None), raised the exception it lets through.
SafeImportModule(key, path) ==
  LET p == ImportModule(path)
      s == disk[key]
      none == [found |-> FALSE, render |-> "none", primary |-> p.res, fallback |-> "none",
               raised |-> "none"]
  IN CASE p.res = "ok" -> [none EXCEPT !.found = TRUE, !.render = p.render]
       [] ~LoaderFallsBack(p.res) -> [none EXCEPT !.raised = p.res]
       [] OTHER ->
            IF ~IsFile(s) THEN [none EXCEPT !.fallback = "absent"]
            ELSE IF ExecResult(s) = "ok"
              THEN [none EXCEPT !.found = TRUE, !.render = RenderOf(s), !.fallback = "ok"]
            ELSE [none EXCEPT !.fallback = ExecResult(s), !.raised = ExecResult(s)]

\* (a slip: the exception of a failed import is let through)
LoaderLoadErrorPropagates(d, exc) == [d EXCEPT !.outcome = "load_error", !.raised = exc]

\* render_or_placeholder, lines 46-50: an exception of the import is shown.
LoaderLoadError(d, exc) ==
  [d EXCEPT !.outcome = "load_error", !.msgs = <<Msg("error", "load_failed")>>, !.caught = exc]

\* render_or_placeholder, lines 52-58: the placeholder of a tool not deployed.
LoaderNotDeployed(d) ==
  [d EXCEPT !.outcome = "not_deployed", !.msgs = <<Msg("info", "not_deployed")>>]

\* render_or_placeholder, lines 60-63.
LoaderMissingRender(d) ==
  [d EXCEPT !.outcome = "missing_render", !.msgs = <<Msg("error", "missing_render")>>]

\* render_or_placeholder, lines 65-75: render has a required positional parameter.
LoaderRequiredArgs(d) ==
  [d EXCEPT !.outcome = "required_args", !.msgs = <<Msg("error", "required_args")>>]

\* (a slip: render is called once to probe it and once to draw)
LoaderCallRenderTwice(d, render, renderRaises) ==
  CASE render = "kwonly" ->
         [d EXCEPT !.outcome = "render_raised", !.calls = 1, !.raised = "TypeError"]
    [] renderRaises ->
         [d EXCEPT !.outcome = "render_raised", !.calls = 1, !.raised = "render_exception"]
    [] OTHER -> [d EXCEPT !.outcome = "rendered", !.calls = 2]

\* render_or_placeholder, line 77: fn(), outside any try; calling a render
\* that has a required keyword-only parameter raises TypeError at the call.
LoaderCallRender(d, render, renderRaises) ==
  CASE render = "kwonly" ->
         [d EXCEPT !.outcome = "render_raised", !.calls = 1, !.raised = "TypeError"]
    [] renderRaises ->
         [d EXCEPT !.outcome = "render_raised", !.calls = 1, !.raised = "render_exception"]
    [] OTHER -> [d EXCEPT !.outcome = "rendered", !.calls = 1]

\* tool_loader.render_or_placeholder(key, module_path); renderRaises: what the
\* tool's render() does when it is called.
RenderOrPlaceholder(key, path, renderRaises) ==
  LET r == SafeImportModule(key, path)
      d == [NoDispatch EXCEPT !.by = "tool_loader", !.key = key, !.module = path,
                              !.primary = r.primary, !.fallback = r.fallback]
  IN CASE r.raised # "none" -> LoaderLoadError(d, r.raised)
       [] ~r.found -> LoaderNotDeployed(d)
       [] r.render = "none" -> LoaderMissingRender(d)
       [] r.render = "reqarg" -> LoaderRequiredArgs(d)
       [] OTHER -> LoaderCallRender(d, r.render, renderRaises)

\* (a slip: a missing tools.yaml is read as an empty one, nothing is shown)
LoadToolsConfigSilent(yaml) ==
  CASE yaml.shape = "missing" -> [raw |-> [yaml EXCEPT !.shape = "list"], msgs |-> <<>>]
    [] yaml.shape = "unparseable" ->
         [raw |-> [yaml EXCEPT !.shape = "list"], msgs |-> <<Msg("error", "config_parse")>>]
    [] OTHER -> [raw |-> yaml, msgs |-> <<>>]

\* app.load_tools_config: the parsed document, or {"tools": []} and an error.
LoadToolsConfig(yaml) ==
  CASE yaml.shape = "missing" ->
         [raw |-> [yaml EXCEPT !.shape = "list"], msgs |-> <<Msg("error", "config_missing")>>]
    [] yaml.shape = "unparseable" ->
         [raw |-> [yaml EXCEPT !.shape = "list"], msgs |-> <<Msg("error", "config_parse")>>]
    [] OTHER -> [raw |-> yaml, msgs |-> <<>>]

\* The loop of app.normalize_tools: dict items with a key and a module.
RECURSIVE CleanItems(_)
CleanItems(items) ==
  IF items = <<>> THEN <<>>
  ELSE LET t == Head(items)
       IN IF t.form = "keyed" /\ t.key # NoKey /\ t.module # NoModule
            THEN <<[key |-> t.key, module |-> t.module, section |-> t.section]>>
                   \o CleanItems(Tail(items))
            ELSE CleanItems(Tail(items))

\* app.normalize_tools: iterating a mapping yields its keys (strings, none is
\* kept); iterating a number raises TypeError.
NormalizeTools(raw) ==
  CASE raw.shape = "scalar" -> [tools |-> <<>>, raised |-> "TypeError"]
    [] raw.shape = "map" -> [tools |-> <<>>, raised |-> "none"]
    [] OTHER -> [tools |-> CleanItems(raw.items), raised |-> "none"]

\* keys.index(k): the first position of k.
IndexOf(tools, k) == CHOOSE i \in 1..Len(tools) : tools[i].key = k /\ \A j \in 1..(i - 1) : tools[j].key # k
HasKey(tools, k) == \E i \in 1..Len(tools) : tools[i].key = k

\* app.render_sidebar; input: 0 = the user touches nothing, i = the user
\* clicks the button of (or picks, in the radio) the i-th tool.
RenderSidebar(tools, input) ==
  IF tools = <<>>
    THEN [selected |-> NoKey, session |-> session, msgs |-> <<Msg("info", "no_tools")>>]
  ELSE LET has_sections == \E i \in 1..Len(tools) : tools[i].section
           sel == IF has_sections
                    THEN (IF input = 0 THEN session ELSE tools[input].key)
                  ELSE IF input # 0 THEN tools[input].key
                  ELSE IF HasKey(tools, session) THEN tools[IndexOf(tools, session)].key
                  ELSE tools[1].key
       IN [selected |-> sel, session |-> sel, msgs |-> <<>>]

\* app.smart_import, line 116: the exception that starts the file fallback.
AppFallsBack(res) == res = "ModuleNotFoundError"

\* app.smart_import; partial: the render attribute of the module object that
\* a failed _load_module_from_file leaves in sys.modules.
SmartImport(path, partial) ==
  LET p == ImportModule(path)
      s == disk[path.name]
      none == [found |-> FALSE, render |-> "none", primary |-> p.res, fallback |-> "none",
               sys |-> sysModules]
  IN CASE p.res = "ok" -> [none EXCEPT !.found = TRUE, !.render = p.render]
       [] ~AppFallsBack(p.res) -> none
       [] path.pkg # "tools" -> [none EXCEPT !.fallback = "not_tools_domain"]
       [] IsFile(s) \/ IsPkg(s) ->
            IF ExecResult(s) = "ok"
              THEN [none EXCEPT !.found = TRUE, !.render = RenderOf(s), !.fallback = "ok",
                                !.sys = [sysModules EXCEPT ![path.name] = RenderOf(s)]]
              ELSE [none EXCEPT !.fallback = ExecResult(s),
                                !.sys = [sysModules EXCEPT ![path.name] = partial]]
       [] OTHER -> [none EXCEPT !.fallback = "absent"]

\* render_selected_tool, lines 224-233: no module.
AppImportFailed(d) ==
  [d EXCEPT !.outcome = "import_failed", !.msgs = <<Msg("error", "import_failed")>>]

\* render_selected_tool, lines 236-240: mod.render() inside try; calling a
\* render that has a required parameter raises TypeError at the call.
AppCallRender(d, render, renderRaises) ==
  CASE render \in {"reqarg", "kwonly"} ->
         [d EXCEPT !.outcome = "render_error", !.calls = 1, !.caught = "TypeError",
                   !.msgs = <<Msg("error", "render_error")>>]
    [] renderRaises ->
         [d EXCEPT !.outcome = "render_error", !.calls = 1, !.caught = "render_exception",
                   !.msgs = <<Msg("error", "render_error")>>]
    [] OTHER -> [d EXCEPT !.outcome = "rendered", !.calls = 1]

\* render_selected_tool, lines 241-242.
AppMissingRender(d) ==
  [d EXCEPT !.outcome = "missing_render", !.msgs = <<Msg("error", "missing_render")>>]

\* app.render_selected_tool(tools, key): the dispatch and sys.modules after it.
RenderSelectedTool(tools, key, renderRaises, partial) ==
  LET d == [NoDispatch EXCEPT !.by = "app", !.key = key]
      path == tools[IndexOf(tools, key)].module
      m == SmartImport(path, partial)
      e == [d EXCEPT !.module = path, !.primary = m.primary, !.fallback = m.fallback]
  IN CASE key = NoKey ->
            [rec |-> [d EXCEPT !.outcome = "no_selection", !.msgs = <<Msg("plain", "select_a_tool")>>],
             sys |-> sysModules]
       [] ~HasKey(tools, key) ->
            [rec |-> [d EXCEPT !.outcome = "not_in_manifest",
                               !.msgs = <<Msg("error", "not_in_manifest")>>],
             sys |-> sysModules]
       [] ~m.found -> [rec |-> AppImportFailed(e), sys |-> m.sys]
       [] m.render # "none" -> [rec |-> AppCallRender(e, m.render, renderRaises), sys |-> m.sys]
       [] OTHER -> [rec |-> AppMissingRender(e), sys |-> m.sys]

AppInit ==
  /\ prog = "app"
  /\ toolsYaml \in AppManifests
  /\ disk \in [Keys -> DiskStates]
  /\ pc = "serving"
  /\ exitCode = -1
  /\ entries = <<>> /\ warnings = <<>> /\ checked = <<>>
  /\ failures = <<>> /\ successes = <<>> /\ skips = <<>>
  /\ AppIdle
  /\ RegIdle
  /\ ScriptsIdle

\* app.main: one page render.
AppMain ==
  /\ prog = "app"
  /\ \E cfg \in {LoadToolsConfig(toolsYaml)} :
     \E norm \in {NormalizeTools(cfg.raw)} :
       IF norm.raised # "none"
         THEN /\ last' = [NoDispatch EXCEPT !.by = "app", !.outcome = "crashed",
                                            !.msgs = cfg.msgs, !.raised = norm.raised]
              /\ UNCHANGED <<session, sysModules>>
         ELSE \E input \in 0..Len(norm.tools) :
              \E side \in {RenderSidebar(norm.tools, input)} :
              \E d \in {RenderSelectedTool(norm.tools, side.selected, rr, pt) :
                           rr \in BOOLEAN, pt \in PartialRenders} :
                /\ last' = [d.rec EXCEPT !.msgs = cfg.msgs \o side.msgs \o d.rec.msgs]
                /\ session' = side.session
                /\ sysModules' = d.sys
  /\ prev' = [key |-> last.key, outcome |-> last.outcome]
  /\ UNCHANGED <<envVars, pc, exitCode, smokeVars, regFiles, regVars, scriptVars>>

AppNext == AppMain

SpecApp == AppInit /\ [][AppNext]_vars

LoaderInit ==
  /\ prog = "tool_loader"
  /\ toolsYaml = [shape |-> "missing", items |-> <<>>]
  /\ disk \in [Keys -> DiskStates]
  /\ pc = "serving"
  /\ exitCode = -1
  /\ entries = <<>> /\ warnings = <<>> /\ checked = <<>>
  /\ failures = <<>> /\ successes = <<>> /\ skips = <<>>
  /\ AppIdle
  /\ RegIdle
  /\ ScriptsIdle

\* A page calls tool_loader.render_or_placeholder(key, module_path).
LoaderDispatch ==
  /\ prog = "tool_loader"
  /\ \E key \in Keys, path \in AppModules, renderRaises \in BOOLEAN :
       last' = RenderOrPlaceholder(key, path, renderRaises)
  /\ prev' = [key |-> last.key, outcome |-> last.outcome]
  /\ UNCHANGED <<envVars, pc, exitCode, smokeVars, session, sysModules, regFiles, regVars, scriptVars>>

LoaderNext == LoaderDispatch

SpecLoader == LoaderInit /\ [][LoaderNext]_vars

\* The interactive dispatchers: app.py and tool_loader.
DispatchInit == AppInit \/ LoaderInit
DispatchNext == AppNext \/ LoaderNext
SpecDispatch == DispatchInit /\ [][DispatchNext]_vars

\* -------------------------------------------------------------- reg_watch
\* scripts/reg_watch.py, run again and again by its workflow; the files under
\* standards/ carry over from one run to the next.

\* A watchlist item: its key (NoKey when it has none) and whether resolve_url
\* finds a URL for it (secret, inline url or standards/urls/<key>.txt).
DocItems ==
  [key : DocKeys, resolves : BOOLEAN] \cup {[key |-> NoKey, resolves |-> TRUE]}
\* watchlist.yaml: missing, malformed (not YAML, or not a mapping of
\* mappings: reading it raises), or a list of items.
Watchlists ==
  [kind : {"missing", "malformed"}, docs : {<<>>}]
    \cup [kind : {"ok"}, docs : SeqsUpTo(DocItems, MaxDocs)]

\* The loop of load_watchlist: items without a key are skipped.
RECURSIVE KeyedDocs(_)
KeyedDocs(items) ==
  IF items = <<>> THEN <<>>
  ELSE IF Head(items).key = NoKey THEN KeyedDocs(Tail(items))
  ELSE <<Head(items)>> \o KeyedDocs(Tail(items))

\* load_state: the JSON value of the state file, {} when the file is missing
\* or is not JSON. A JSON value that is no object is returned as it is.
LoadState(file) ==
  IF file.kind \in {"missing", "corrupt"} THEN [kind |-> "object", data |-> EmptyState]
  ELSE file

\* What the network does to one head_metadata call: the HEAD answers (ok), is
\* answered with a refusal of the method (blocked: 403, 405), or raises
\* RequestException (fail) and the ranged GET answers or raises too. sig is
\* the signature of the response that is read.
FetchOutcomes ==
  [head : {"ok"}, get : {"none"}, sig : Sigs]
    \cup [head : {"blocked"}, get : {"none"}, sig : {1}]
    \cup [head : {"fail"}, get : {"ok"}, sig : Sigs]
    \cup [head : {"fail"}, get : {"fail"}, sig : {1}]
NoFetch == [head |-> "none", get |-> "none", sig |-> 0]

\* head_metadata: the requests made and the metadata returned.
HeadMetadata(net, now) ==
  CASE net.head \in {"ok", "blocked"} ->
         [ok |-> TRUE, signature |-> net.sig, checked_at |-> now, requests |-> <<"HEAD">>]
    [] net.get = "ok" ->
         [ok |-> TRUE, signature |-> net.sig, checked_at |-> now, requests |-> <<"HEAD", "GET">>]
    [] OTHER ->
         [ok |-> FALSE, signature |-> 0, checked_at |-> 0, requests |-> <<"HEAD", "GET">>]

RegInit ==
  /\ prog = "reg_watch"
  /\ toolsYaml = [shape |-> "missing", items |-> <<>>]
  /\ disk = [n \in Keys |-> "absent"]
  /\ pc = "load"
  /\ exitCode = -1
  /\ entries = <<>> /\ warnings = <<>> /\ checked = <<>>
  /\ failures = <<>> /\ successes = <<>> /\ skips = <<>>
  /\ AppIdle
  /\ ScriptsIdle
  /\ watchlist \in Watchlists
  /\ stateFile \in [kind : {"missing", "corrupt", "non_object", "object"}, data : {EmptyState}]
  /\ logMd = <<>>
  /\ run = 1
  /\ docs = <<>>
  /\ state = [kind |-> "object", data |-> EmptyState]
  /\ updated = <<>>
  /\ errors = <<>>
  /\ fetched = <<>>
  /\ prevFetched = <<>>
  /\ writes = <<>>

\* (a slip: a missing watchlist is only reported)
LoadWatchlistExitLenient(kind) == IF kind = "malformed" THEN 1 ELSE -1

\* load_watchlist, lines 49-53: sys.exit(1) when the file is missing; an
\* exception of the parse ends the process with exit code 1; -1: goes on.
LoadWatchlistExit(kind) == IF kind \in {"missing", "malformed"} THEN 1 ELSE -1

\* main, lines 155-158: load_watchlist, load_state.
RegLoad ==
  /\ prog = "reg_watch" /\ pc = "load"
  /\ IF LoadWatchlistExit(watchlist.kind) # -1
       THEN /\ pc' = "exit" /\ exitCode' = LoadWatchlistExit(watchlist.kind)
            /\ UNCHANGED <<docs, state>>
       ELSE /\ pc' = "loop" /\ exitCode' = exitCode
            /\ docs' = KeyedDocs(watchlist.docs)
            /\ state' = LoadState(stateFile)
  /\ UNCHANGED <<envVars, smokeVars, appVars, regFiles, run, updated, errors, fetched, writes, prevFetched, scriptVars>>

\* (a slip: the record keeps no time of the check)
StateRecordUntimed(meta) == [signature |-> meta.signature, checked_at |-> 0]

\* main, lines 181-185: the record stored for a document, {name, url, **meta}.
StateRecord(meta) == [signature |-> meta.signature, checked_at |-> meta.checked_at]

\* main, lines 160-185: one iteration of the loop over docs.
RegCheckDoc ==
  /\ prog = "reg_watch" /\ pc = "loop"
  /\ Len(fetched) < Len(docs)
  /\ LET doc == docs[Len(fetched) + 1]
         prev_sig == state.data[doc.key].signature
     IN IF ~doc.resolves
          THEN /\ errors' = Append(errors, [key |-> doc.key, error |-> "no_url"])
               /\ fetched' = Append(fetched, [key |-> doc.key, requests |-> <<>>, signature |-> 0,
                                              ok |-> FALSE, net |-> NoFetch])
               /\ UNCHANGED <<pc, exitCode, state, updated>>
          ELSE \E net \in FetchOutcomes :
               \E meta \in {HeadMetadata(net, run)} :
                 /\ fetched' = Append(fetched, [key |-> doc.key, requests |-> meta.requests,
                                                signature |-> meta.signature,
                                                ok |-> meta.ok, net |-> net])
                 /\ IF ~meta.ok
                      THEN /\ errors' = Append(errors, [key |-> doc.key, error |-> "fetch_failed"])
                           /\ UNCHANGED <<pc, exitCode, state, updated>>
                    ELSE IF state.kind # "object"
                      \* state.get / state[key] = ... on a value that is no dict raises
                      THEN /\ pc' = "exit" /\ exitCode' = 1
                           /\ UNCHANGED <<state, updated, errors>>
                    ELSE IF meta.signature # prev_sig
                      THEN /\ updated' = Append(updated, [key |-> doc.key, old_signature |-> prev_sig,
                                                          signature |-> meta.signature])
                           /\ state' = [state EXCEPT !.data[doc.key] = StateRecord(meta)]
                           /\ UNCHANGED <<pc, exitCode, errors>>
                    ELSE UNCHANGED <<pc, exitCode, state, updated, errors>>
  /\ UNCHANGED <<envVars, smokeVars, appVars, regFiles, run, docs, writes, prevFetched, scriptVars>>

\* (a slip: state and log are written at the end of every run)
AnythingChangedOrNot(upd) == TRUE

\* main, line 188: if updated.
AnythingChanged(upd) == upd # <<>>

\* (a slip: the log file is opened for writing, not for appending)
AppendLogTruncating(log, changes, now) == <<[at |-> now, changes |-> changes]>>

\* append_log: one section, headed by the time, with one entry per change,
\* is added at the end of watch_log.md.
AppendLog(log, changes, now) == Append(log, [at |-> now, changes |-> changes])

\* main, lines 187-201: save_state and append_log if anything changed; return 0.
RegFinish ==
  /\ prog = "reg_watch" /\ pc = "loop"
  /\ Len(fetched) = Len(docs)
  /\ IF AnythingChanged(updated)
       THEN /\ stateFile' = state
            /\ logMd' = AppendLog(logMd, updated, run)
            /\ writes' = <<"state", "log">>
       ELSE UNCHANGED <<stateFile, logMd, writes>>
  /\ pc' = "exit" /\ exitCode' = 0
  /\ UNCHANGED <<envVars, smokeVars, appVars, watchlist, run, docs, state, updated, errors, fetched, prevFetched, scriptVars>>

\* The workflow starts the script again.
RegNextRun ==
  /\ prog = "reg_watch" /\ pc = "exit"
  /\ run < MaxRuns
  /\ run' = run + 1
  /\ pc' = "load" /\ exitCode' = -1
  /\ docs' = <<>> /\ updated' = <<>> /\ errors' = <<>> /\ fetched' = <<>>
  /\ prevFetched' = [i \in 1..Len(fetched) |-> [key |-> fetched[i].key, signature |-> fetched[i].signature]]
  /\ writes' = <<>>
  /\ state' = [kind |-> "object", data |-> EmptyState]
  /\ UNCHANGED <<envVars, smokeVars, appVars, regFiles, scriptVars>>

RegNext == RegLoad \/ RegCheckDoc \/ RegFinish \/ RegNextRun

SpecReg == RegInit /\ [][RegNext]_vars

\* The programs that read tools.yaml and load the tools.
ToolsInit == SmokeInit \/ DispatchInit
ToolsNext == SmokeNext \/ DispatchNext
SpecTools == ToolsInit /\ [][ToolsNext]_vars

\* -------------------------------------------------------------- sop_watch
\* scripts/sop_watch.py. Names are sequences of characters, so that lower()
\* and the substring test of main are computed.

MaxDepts == 2
MaxSops == 1
Lower(ch) == CASE ch = "A" -> "a" [] ch = "B" -> "b" [] OTHER -> ch
\* str.lower()
LowerStr(str) == [i \in 1..Len(str) |-> Lower(str[i])]
\* sub in str, for a non-empty sub
Contains(sub, str) ==
  \E i \in 1..(Len(str) - Len(sub) + 1) : SubSeq(str, i, i + Len(sub) - 1) = sub

\* The stems of the files that may lie under the sop_dir.
SopStems == {<<"a", "B", "a">>, <<"b">>, <<"A">>}
\* An expected SOP, by the first word of its name; <<>>: a blank name.
SopNames == {<<>>, <<"A">>, <<"a", "b">>}
\* A department: whether it has a sop_dir, and its expected_sops (a list, or
\* the key given without a value: null).
Departments ==
  [sop_dir : BOOLEAN, expected_null : {FALSE}, expected : SeqsUpTo(SopNames, MaxSops)]
    \cup [sop_dir : BOOLEAN, expected_null : {TRUE}, expected : {<<>>}]
\* departments.yaml: missing; without a departments key (or empty); with the
\* key and no value (null); with a list of departments.
DeptsYamls ==
  [kind : {"missing", "no_key", "null"}, depts : {<<>>}]
    \cup [kind : {"list"}, depts : SeqsUpTo(Departments, MaxDepts)]

\* main, lines 31-34: found, the lowered stems of the files under sop_dir.
FoundStems(d) == IF d.sop_dir THEN {LowerStr(f) : f \in sopFiles} ELSE {}

\* main, lines 37-39: ok for one expected SOP.
SopPresent(sop, found) == \E st \in found : Contains(LowerStr(sop), st)

\* main, lines 36-40: the present (want = TRUE) or missing list of a department.
RECURSIVE SopSplit(_, _, _)
SopSplit(expected, found, want) ==
  IF expected = <<>> THEN <<>>
  ELSE (IF SopPresent(Head(expected), found) = want THEN <<Head(expected)>> ELSE <<>>)
         \o SopSplit(Tail(expected), found, want)

\* main's loop body raises: expected_sops is None (for sop in None), or a
\* name is blank (sop.split()[0]).
SopRaises(d) == d.expected_null \/ \E i \in 1..Len(d.expected) : d.expected[i] = <<>>

SopInit ==
  /\ prog = "sop_watch"
  /\ toolsYaml = [shape |-> "missing", items |-> <<>>]
  /\ disk = [n \in Keys |-> "absent"]
  /\ pc = "load"
  /\ exitCode = -1
  /\ entries = <<>> /\ warnings = <<>> /\ checked = <<>>
  /\ failures = <<>> /\ successes = <<>> /\ skips = <<>>
  /\ AppIdle
  /\ RegIdle
  /\ deptsYaml \in DeptsYamls
  /\ sopFiles \in SUBSET SopStems
  /\ sopDepts = <<>>
  /\ summary = <<>>
  /\ sopOut = NotWritten
  /\ HealthIdle
  /\ WarIdle
  /\ BuilderIdle
  /\ RtIdle
  /\ PageIdle

\* main, lines 19-24: load_yaml, cfg.get("departments", []); iterating None
\* raises TypeError.
SopLoad ==
  /\ prog = "sop_watch" /\ pc = "load"
  /\ IF deptsYaml.kind = "null"
       THEN pc' = "exit" /\ exitCode' = 1 /\ UNCHANGED sopDepts
       ELSE pc' = "loop" /\ exitCode' = exitCode /\ sopDepts' = deptsYaml.depts
  /\ UNCHANGED <<envVars, smokeVars, appVars, regFiles, regVars, deptsYaml, sopFiles, summary, sopOut, healthVars, warVars, builderVars, rtVars, pageVars>>

\* main, lines 24-48: one department.
SopCheckDept ==
  /\ prog = "sop_watch" /\ pc = "loop"
  /\ Len(summary) < Len(sopDepts)
  /\ LET d == sopDepts[Len(summary) + 1]
         found == FoundStems(d)
     IN IF SopRaises(d)
          THEN pc' = "exit" /\ exitCode' = 1 /\ UNCHANGED summary
          ELSE /\ summary' = Append(summary, [present |-> SopSplit(d.expected, found, TRUE),
                                              missing |-> SopSplit(d.expected, found, FALSE)])
               /\ UNCHANGED <<pc, exitCode>>
  /\ UNCHANGED <<envVars, smokeVars, appVars, regFiles, regVars, deptsYaml, sopFiles, sopDepts, sopOut, healthVars, warVars, builderVars, rtVars, pageVars>>

\* main, lines 42, 52-58: exit 1 if any department has a missing SOP.
SopExit(summ) == IF \E i \in 1..Len(summ) : summ[i].missing # <<>> THEN 1 ELSE 0

\* main, lines 50-58: write sop_state.json and exit.
SopFinish ==
  /\ prog = "sop_watch" /\ pc = "loop"
  /\ Len(summary) = Len(sopDepts)
  /\ sopOut' = summary
  /\ pc' = "exit" /\ exitCode' = SopExit(summary)
  /\ UNCHANGED <<envVars, smokeVars, appVars, regFiles, regVars, deptsYaml, sopFiles, sopDepts, summary, healthVars, warVars, builderVars, rtVars, pageVars>>

SopNext == SopLoad \/ SopCheckDept \/ SopFinish

SpecSop == SopInit /\ [][SopNext]_vars

\* ---------------------------------------------------------- health_report
\* scripts/health_report.py, run from the repository root with its default
\* arguments.

\* The items of the manifests health_report is run on: {key, label, module}
\* mappings, and a bare string.
HealthItems ==
  {i \in ItemsOver(SmokeModules) :
     \/ i.form = "keyed" /\ i.enabled = "absent"
     \/ i.form = "name" /\ i.key = "a"}

\* read_tools_yaml: hdr's error ("none" if hdr is empty), the items, and
\* the exception that escapes its loop: iterating a number raises TypeError,
\* item.get on a string (a bare string item, a key of a mapping) raises
\* AttributeError.
ReadToolsYaml(yaml) ==
  CASE yaml.shape = "missing" -> [error |-> "not_found", items |-> <<>>, raised |-> "none"]
    [] yaml.shape = "unparseable" -> [error |-> "parse", items |-> <<>>, raised |-> "none"]
    [] yaml.shape = "scalar" -> [error |-> "none", items |-> <<>>, raised |-> "TypeError"]
    [] \E i \in 1..Len(yaml.items) : yaml.shape = "map" \/ yaml.items[i].form # "keyed" ->
         [error |-> "none", items |-> <<>>, raised |-> "AttributeError"]
    [] OTHER -> [error |-> "none",
                 items |-> [i \in 1..Len(yaml.items) |->
                              [key |-> yaml.items[i].key, module |-> yaml.items[i].module]],
                 raised |-> "none"]

Check(name, key, ok, details) == [name |-> name, key |-> key, ok |-> ok, details |-> details]

\* module_to_path: the file or package __init__ of a tools.* module, if any.
ModuleToPath(module) ==
  CASE module.pkg # "tools" -> "none"
    [] IsFile(disk[module.name]) -> "file"
    [] IsPkg(disk[module.name]) -> "package"
    [] OTHER -> "none"

\* try_import: importlib.import_module(module), any exception caught.
TryImport(module) == healthEnv.onPath /\ DiskImport(module) = "ok"

\* main, lines 127-149: the check recorded for one entry of tools_list.
ToolCheck(t) ==
  CASE t.module = NoModule -> Check("tool", t.key, FALSE, "missing_module")
    [] ModuleToPath(t.module) = "none" -> Check("tool", t.key, FALSE, "no_file")
    [] TryImport(t.module) -> Check("tool", t.key, TRUE, "import_ok")
    [] OTHER -> Check("tool", t.key, FALSE, "import_error")

\* report["failed_checks"]: incremented with every check that is not ok.
FailedChecks(checks) == Cardinality({i \in 1..Len(checks) : ~checks[i].ok})

HealthInit ==
  /\ prog = "health_report"
  /\ toolsYaml \in ManifestsOver(HealthItems)
  /\ disk \in [Keys -> DiskStates]
  /\ pc = "load"
  /\ exitCode = -1
  /\ entries = <<>> /\ warnings = <<>> /\ checked = <<>>
  /\ failures = <<>> /\ successes = <<>> /\ skips = <<>>
  /\ AppIdle
  /\ RegIdle
  /\ SopIdle
  /\ healthEnv \in [markers : BOOLEAN, onPath : BOOLEAN]
  /\ toolsList = <<>>
  /\ report = <<>>
  /\ reportOut = FALSE
  /\ WarIdle
  /\ BuilderIdle
  /\ RtIdle
  /\ PageIdle

\* main, lines 110-124: the tools.yaml check and the package marker check.
HealthLoad ==
  /\ prog = "health_report" /\ pc = "load"
  /\ \E r \in {ReadToolsYaml(toolsYaml)} :
       IF r.raised # "none"
         THEN pc' = "exit" /\ exitCode' = 1 /\ UNCHANGED <<toolsList, report>>
         ELSE /\ pc' = "loop" /\ exitCode' = exitCode
              /\ toolsList' = r.items
              /\ report' = <<Check("tools.yaml parse", NoKey, r.error = "none", r.error),
                             Check("package markers", NoKey, healthEnv.markers, "markers")>>
  /\ UNCHANGED <<envVars, smokeVars, appVars, regFiles, regVars, sopVars, healthEnv, reportOut, warVars, builderVars, rtVars, pageVars>>

\* main, lines 127-149: one entry of tools_list.
HealthCheckTool ==
  /\ prog = "health_report" /\ pc = "loop"
  /\ Len(report) - 2 < Len(toolsList)
  /\ report' = Append(report, ToolCheck(toolsList[Len(report) - 1]))
  /\ UNCHANGED <<envVars, pc, exitCode, smokeVars, appVars, regFiles, regVars, sopVars, healthEnv,
                 toolsList, reportOut, warVars, builderVars, rtVars, pageVars>>

\* main, lines 151-168: write the reports; sys.exit(1) if a check failed.
HealthFinish ==
  /\ prog = "health_report" /\ pc = "loop"
  /\ Len(report) - 2 = Len(toolsList)
  /\ reportOut' = TRUE
  /\ pc' = "exit"
  /\ exitCode' = IF FailedChecks(report) > 0 THEN 1 ELSE 0
  /\ UNCHANGED <<envVars, smokeVars, appVars, regFiles, regVars, sopVars, healthEnv, toolsList, report, warVars, builderVars, rtVars, pageVars>>

HealthNext == HealthLoad \/ HealthCheckTool \/ HealthFinish

SpecHealth == HealthInit /\ [][HealthNext]_vars

\* The scripts that check tools.yaml in CI.
CiInit == SmokeInit \/ HealthInit
CiNext == SmokeNext \/ HealthNext
SpecCi == CiInit /\ [][CiNext]_vars

\* --------------------------------------------------------------- war_room
\* streamlit_app/tools/war_room.py: one render of the page. The st.cache_data
\* caches are taken as cold at every render (a hit makes no request).

\* What one GET of a badge does: an SVG that says passing, failing or neither
\* (status 200), another status, or an exception.
BadgeOutcomes == {"passing", "failing", "other", "non200", "exception"}
\* What the network does to the successive GETs of one badge, as far as
\* fetch_badge_status gets: there is no GET after an answer with status 200.
BadgeNets ==
  {<<o>> : o \in {"passing", "failing", "other"}}
    \cup {<<b, o>> : b \in {"non200", "exception"}, o \in BadgeOutcomes}
\* What the GET of /actions/runs does: an exception, another status, or 200
\* with, per workflow, the conclusion of its newest run ("none": no run of
\* that workflow among the runs returned).
ApiOutcomes ==
  [status : {"exception", "non200"}, runs : {[w \in Workflows |-> "none"]}]
    \cup [status : {"200"}, runs : [Workflows -> {"none", "success"}]]
Nets == [api : ApiOutcomes, badge : [Workflows -> BadgeNets]]

\* fetch_api_statuses: {} unless the GET answered 200.
FetchApiStatuses(api) ==
  [w \in Workflows |->
     IF api.status = "200" /\ api.runs[w] # "none"
       THEN [conclusion |-> api.runs[w], source |-> "api"]
       ELSE NoStatus]

\* _badge_conclusion
BadgeConclusion(svg) ==
  CASE svg = "passing" -> "success"
    [] svg = "failing" -> "failure"
    [] OTHER -> "unknown"

\* (a slip: one attempt only)
FetchBadgeStatusOnce(net) ==
  IF net[1] \in {"passing", "failing", "other"}
    THEN [conclusion |-> BadgeConclusion(net[1]), requests |-> 1]
    ELSE [conclusion |-> "unknown", requests |-> 1]

\* fetch_badge_status: for _ in range(2): GET; break on status 200.
FetchBadgeStatus(net) ==
  IF net[1] \in {"passing", "failing", "other"}
    THEN [conclusion |-> BadgeConclusion(net[1]), requests |-> 1]
  ELSE IF net[2] \in {"passing", "failing", "other"}
    THEN [conclusion |-> BadgeConclusion(net[2]), requests |-> 2]
  ELSE [conclusion |-> "unknown", requests |-> 2]

\* _merge_api_badges, for one workflow.
MergedStatus(api, w, net) ==
  IF api[w] # NoStatus THEN api[w]
  ELSE [conclusion |-> FetchBadgeStatus(net.badge[w]).conclusion, source |-> "badge"]

\* The requests that _merge_api_badges makes for the workflows from the i-th on.
RECURSIVE BadgeRequests(_, _, _)
BadgeRequests(api, net, i) ==
  IF i > Len(WORKFLOW_ORDER) THEN <<>>
  ELSE LET w == WORKFLOW_ORDER[i]
           n == IF api[w] # NoStatus THEN 0 ELSE FetchBadgeStatus(net.badge[w]).requests
       IN [k \in 1..n |-> w] \o BadgeRequests(api, net, i + 1)

WarInit ==
  /\ prog = "war_room"
  /\ toolsYaml = [shape |-> "missing", items |-> <<>>]
  /\ disk = [n \in Keys |-> "absent"]
  /\ pc = "serving"
  /\ exitCode = -1
  /\ entries = <<>> /\ warnings = <<>> /\ checked = <<>>
  /\ failures = <<>> /\ successes = <<>> /\ skips = <<>>
  /\ AppIdle
  /\ RegIdle
  /\ SopIdle
  /\ HealthIdle
  /\ warToken \in BOOLEAN
  /\ warNet = QuietNet
  /\ statuses = [w \in Workflows |-> NoStatus]
  /\ httpLog = <<>>
  /\ BuilderIdle
  /\ RtIdle
  /\ PageIdle

\* render: fetch_api_statuses(OWNER, REPO, token if api_mode else None), then
\* _merge_api_badges.
WarRender ==
  /\ prog = "war_room"
  /\ \E net \in Nets :
     \E api \in {FetchApiStatuses(net.api)} :
       /\ warNet' = net
       /\ statuses' = [w \in Workflows |-> MergedStatus(api, w, net)]
       /\ httpLog' = <<"api">> \o BadgeRequests(api, net, 1)
  /\ UNCHANGED <<envVars, pc, exitCode, smokeVars, appVars, regFiles, regVars, sopVars, healthVars,
                 warToken, builderVars, rtVars, pageVars>>

WarNext == WarRender

SpecWar == WarInit /\ [][WarNext]_vars

\* The programs that make HTTP requests.
HttpInit == RegInit \/ WarInit
HttpNext == RegNext \/ WarNext
SpecHttp == HttpInit /\ [][HttpNext]_vars

\* ---------------------------------------------------------------- builder
\* streamlit_app/tools/builder.py: render() in concurrent browser sessions,
\* against the contents API of GitHub. A session can be overtaken by another
\* between two of its HTTP calls. The API creates a file only if the path is
\* free, and replaces one only if the sha sent is the sha of the file.

MaxSubmits == 3
\* What users type as the tool key.
TypedKeys == {<<"a">>, <<" ", "A">>, <<"a", "-", "b">>, <<"!">>}
\* The keys of the entries tools.yaml may hold before the builder is used.
InitialKeys == {<<"a">>, <<"a", "_", "b">>, <<"A">>}

RECURSIVE LStrip(_, _)
LStrip(str, ch) == IF str # <<>> /\ Head(str) = ch THEN LStrip(Tail(str), ch) ELSE str
RECURSIVE RStrip(_, _)
RStrip(str, ch) ==
  IF str # <<>> /\ str[Len(str)] = ch THEN RStrip(SubSeq(str, 1, Len(str) - 1), ch) ELSE str
\* str.strip(ch)
StripCh(str, ch) == RStrip(LStrip(str, ch), ch)
IsAlnum(ch) == ch \in {"a", "b", "A", "B"}
IsSlugChar(ch) == IsAlnum(ch) \/ ch = "_"

\* slugify: strip, lower, "-" and " " to "_", keep alphanumerics and "_",
\* strip "_".
Slugify(str) ==
  LET lowered == LowerStr(StripCh(str, " "))
      replaced == [i \in 1..Len(lowered) |->
                     IF lowered[i] \in {"-", " "} THEN "_" ELSE lowered[i]]
  IN StripCh(SelectSeq(replaced, IsSlugChar), "_")

\* An entry of tools.yaml, as the builder writes it (label left out).
ToolEntry(key) == [key |-> key, module |-> [pkg |-> "tools", name |-> key]]
EntryKeys(tools) == {tools[i].key : i \in 1..Len(tools)}

\* (a slip: the entry is appended without looking at the keys)
EnsureToolsEntryAlways(tools, key) == Append(tools, ToolEntry(Slugify(key)))

\* ensure_tools_entry, on the list ydata["tools"].
EnsureToolsEntry(tools, key) ==
  LET safe_key == Slugify(key)
  IN IF safe_key \in EntryKeys(tools) THEN tools ELSE Append(tools, ToolEntry(safe_key))

\* tools.yaml on the branch: absent, a document whose tools key has no value
\* (null), or a list of entries with distinct keys.
RepoYamls ==
  [kind : {"absent", "null"}, tools : {<<>>}, sha : {0}]
    \cup {[kind |-> "list", tools |-> [i \in 1..Len(ks) |-> ToolEntry(ks[i])], sha |-> 0] :
            ks \in {q \in SeqsUpTo(InitialKeys, MaxEntries) : \A i, j \in 1..Len(q) : q[i] = q[j] => i = j}}

\* The sha a reader of tools.yaml gets: 0 stands for no file (404, sha None);
\* a file never written by the builder has sha 1.
RepoSha(y) == IF y.kind = "absent" THEN 0 ELSE y.sha + 1

BuilderInit ==
  /\ prog = "builder"
  /\ toolsYaml = [shape |-> "missing", items |-> <<>>]
  /\ disk = [n \in Keys |-> "absent"]
  /\ pc = "serving"
  /\ exitCode = -1
  /\ entries = <<>> /\ warnings = <<>> /\ checked = <<>>
  /\ failures = <<>> /\ successes = <<>> /\ skips = <<>>
  /\ AppIdle
  /\ RegIdle
  /\ SopIdle
  /\ HealthIdle
  /\ WarIdle
  /\ repoYaml \in RepoYamls
  /\ repoFiles \in SUBSET {Slugify(t) : t \in TypedKeys}
  /\ sess = [x \in Sessions |-> NoSession]
  /\ submits = 0
  /\ RtIdle
  /\ PageIdle

BuilderFrame ==
  UNCHANGED <<envVars, pc, exitCode, smokeVars, appVars, regFiles, regVars, sopVars, healthVars,
              warVars, rtVars, pageVars>>

\* (a slip: the submission goes on after a failed tool-file write)
AfterToolFileAnyway(ok) == "write_spec"

\* render, lines 189-194: a failed write_tool_file ends the submission.
AfterToolFile(ok) == IF ok THEN "write_spec" ELSE "idle"

\* render, lines 179-194: the form is submitted; write_tool_file creates
\* streamlit_app/tools/<safe_key>.py (no sha sent).
BuilderSubmit(x) ==
  /\ prog = "builder" /\ sess[x].pc = "idle"
  /\ submits < MaxSubmits
  /\ submits' = submits + 1
  /\ \E typed \in TypedKeys, netOk \in BOOLEAN :
       LET safe_key == Slugify(typed)
           ok == netOk /\ safe_key \notin repoFiles
       IN /\ repoFiles' = IF ok THEN repoFiles \cup {safe_key} ELSE repoFiles
          /\ sess' = [sess EXCEPT ![x] =
                        [NoSession EXCEPT !.pc = AfterToolFile(ok), !.key = safe_key,
                                          !.outcome = IF ok THEN "none" ELSE "file_error",
                                          !.done = IF ok THEN <<"tool_file">> ELSE <<>>]]
  /\ UNCHANGED repoYaml
  /\ BuilderFrame

\* render, lines 196-201: write_spec_file; a failure is a warning only.
BuilderWriteSpec(x) ==
  /\ prog = "builder" /\ sess[x].pc = "write_spec"
  /\ \E ok \in BOOLEAN :
       sess' = [sess EXCEPT ![x].pc = "registering",
                            ![x].done = IF ok THEN Append(@, "spec_file") ELSE @]
  /\ UNCHANGED <<repoYaml, repoFiles, submits>>
  /\ BuilderFrame

\* render, lines 204-207: fetch_yaml_from_main.
BuilderFetch(x) ==
  /\ prog = "builder" /\ sess[x].pc = "registering"
  /\ \E netOk \in BOOLEAN :
       IF netOk
         THEN sess' = [sess EXCEPT ![x].pc = "fetched", ![x].tools = repoYaml.tools,
                                   ![x].kind = repoYaml.kind, ![x].sha = RepoSha(repoYaml)]
         ELSE sess' = [sess EXCEPT ![x].pc = "idle", ![x].outcome = "fetch_error"]
  /\ UNCHANGED <<repoYaml, repoFiles, submits>>
  /\ BuilderFrame

\* render, lines 208-214: ensure_tools_entry, save_yaml_to_main (the sha of
\* the fetch is sent). list(None) raises TypeError.
BuilderSave(x) ==
  /\ prog = "builder" /\ sess[x].pc = "fetched"
  /\ \E netOk \in BOOLEAN :
     \E updated_yaml \in {EnsureToolsEntry(sess[x].tools, sess[x].key)} :
       IF sess[x].kind = "null"
         THEN /\ sess' = [sess EXCEPT ![x].pc = "idle", ![x].outcome = "TypeError"]
              /\ UNCHANGED repoYaml
       ELSE IF netOk /\ sess[x].sha = RepoSha(repoYaml)
         THEN /\ repoYaml' = [kind |-> "list", tools |-> updated_yaml, sha |-> repoYaml.sha + 1]
              /\ sess' = [sess EXCEPT ![x].pc = "open_issue", ![x].outcome = "registered",
                                      ![x].appended = (updated_yaml # sess[x].tools),
                                      ![x].done = Append(@, "tools_yaml")]
       ELSE /\ sess' = [sess EXCEPT ![x].pc = "idle", ![x].outcome = "save_error"]
            /\ UNCHANGED repoYaml
  /\ UNCHANGED <<repoFiles, submits>>
  /\ BuilderFrame

\* render, lines 216-221: open_issue_for_spec.
BuilderOpenIssue(x) ==
  /\ prog = "builder" /\ sess[x].pc = "open_issue"
  /\ \E ok \in BOOLEAN :
       sess' = [sess EXCEPT ![x].pc = "idle",
                            ![x].done = IF ok THEN Append(@, "issue") ELSE @]
  /\ UNCHANGED <<repoYaml, repoFiles, submits>>
  /\ BuilderFrame

BuilderNext ==
  \E x \in Sessions :
    \/ BuilderSubmit(x)
    \/ BuilderWriteSpec(x)
    \/ BuilderFetch(x)
    \/ BuilderSave(x)
    \/ BuilderOpenIssue(x)

SpecBuilder == BuilderInit /\ [][BuilderNext]_vars

\* ------------------------------------------------- manifest round trip
\* builder.save_yaml_to_main writes the manifest; app.load_tools_config and
\* app.normalize_tools read it back. Strings are sequences of characters; a
\* YAML scalar is written plain or single-quoted and a plain scalar is typed
\* by the loader.

\* The values of key in the manifests written.
RtKeys == {<<"a">>, <<"~">>, <<" ", "a">>, <<" ">>, <<"a", " ", "a">>, <<"~", "a">>}
\* The values of module in the manifests written.
RtModules == {<<"a">>, <<"a", " ">>, <<"~">>}

StrValue(str) == [t |-> "str", v |-> str]
NullValue == [t |-> "null", v |-> <<>>]

\* The implicit resolver of the loader on a plain scalar: "~" and the empty
\* scalar are null, anything else here is a string.
ResolvePlain(text) == IF text \in {<<>>, <<"~">>} THEN NullValue ELSE StrValue(text)

\* (a slip: every string is written plain)
DumpScalarPlain(value) == [style |-> "plain", text |-> value.v]

\* yaml.safe_dump of a scalar: a string is quoted when it is empty, starts or
\* ends with a space, or would be read back as something else.
DumpScalar(value) ==
  IF value.t = "null" THEN [style |-> "plain", text |-> <<"~">>]
  ELSE IF \/ value.v = <<>>
          \/ StripCh(value.v, " ") # value.v
          \/ ResolvePlain(value.v).t # "str"
    THEN [style |-> "single", text |-> value.v]
    ELSE [style |-> "plain", text |-> value.v]

\* yaml.safe_load of a scalar; the spaces around a plain scalar are not part
\* of it.
LoadScalar(token) ==
  IF token.style = "single" THEN StrValue(token.text)
  ELSE ResolvePlain(StripCh(token.text, " "))

\* str(value)
StrOf(value) == IF value.t = "null" THEN <<"N", "o", "n", "e">> ELSE value.v

\* save_yaml_to_main, line 88: the text of the tools list.
SafeDump(tools) ==
  [i \in 1..Len(tools) |-> [key |-> DumpScalar(tools[i].key), module |-> DumpScalar(tools[i].module)]]

\* load_tools_config, line 44: the tools list of the text.
SafeLoad(text) ==
  [i \in 1..Len(text) |-> [key |-> LoadScalar(text[i].key), module |-> LoadScalar(text[i].module)]]

HasKeyAndModule(t) == t.key # <<>> /\ t.module # <<>>

\* normalize_tools, lines 57-80, on mapping items: str(...).strip() of key and
\* module; an item is kept if both are non-empty.
NormalizeItems(items) ==
  SelectSeq([i \in 1..Len(items) |->
               [key |-> StripCh(StrOf(items[i].key), " "),
                module |-> StripCh(StrOf(items[i].module), " ")]],
            HasKeyAndModule)

\* Manifests of entries with pairwise distinct non-empty keys and non-empty
\* modules.
RtManifests ==
  {[i \in 1..Len(ks) |-> [key |-> StrValue(ks[i]), module |-> StrValue(ms[i])]] :
     <<ks, ms>> \in {qm \in SeqsUpTo(RtKeys, MaxEntries) \X SeqsUpTo(RtModules, MaxEntries) :
                       /\ Len(qm[1]) = Len(qm[2])
                       /\ \A i, j \in 1..Len(qm[1]) : qm[1][i] = qm[1][j] => i = j}}

RtInit ==
  /\ prog = "manifest_io"
  /\ toolsYaml = [shape |-> "missing", items |-> <<>>]
  /\ disk = [n \in Keys |-> "absent"]
  /\ pc = "save"
  /\ exitCode = -1
  /\ entries = <<>> /\ warnings = <<>> /\ checked = <<>>
  /\ failures = <<>> /\ successes = <<>> /\ skips = <<>>
  /\ AppIdle
  /\ RegIdle
  /\ SopIdle
  /\ HealthIdle
  /\ WarIdle
  /\ BuilderIdle
  /\ ydata \in RtManifests
  /\ yamlText = <<>>
  /\ cleaned = <<>>
  /\ reparsed = <<>>
  /\ PageIdle

RtFrame ==
  UNCHANGED <<envVars, exitCode, smokeVars, appVars, regFiles, regVars, sopVars, healthVars,
              warVars, builderVars, ydata, pageVars>>

\* builder.save_yaml_to_main
SaveYamlToMain ==
  /\ prog = "manifest_io" /\ pc = "save"
  /\ yamlText' = SafeDump(ydata)
  /\ pc' = "load"
  /\ UNCHANGED <<cleaned, reparsed>>
  /\ RtFrame

\* app.main, lines 251-252: load_tools_config, normalize_tools
LoadAndNormalize ==
  /\ prog = "manifest_io" /\ pc = "load"
  /\ cleaned' = NormalizeItems(SafeLoad(yamlText))
  /\ pc' = "reload"
  /\ UNCHANGED <<yamlText, reparsed>>
  /\ RtFrame

\* app.main on the next rerun of the page
LoadAgain ==
  /\ prog = "manifest_io" /\ pc = "reload"
  /\ reparsed' = NormalizeItems(SafeLoad(yamlText))
  /\ pc' = "done"
  /\ UNCHANGED <<yamlText, cleaned>>
  /\ RtFrame

RtNext == SaveYamlToMain \/ LoadAndNormalize \/ LoadAgain

SpecRoundTrip == RtInit /\ [][RtNext]_vars

\* -------------------------------------------------------------- health_app
\* scripts/health_app.py: import the app, run the smoke test, report.

HaInit ==
  /\ prog = "health_app"
  /\ toolsYaml \in ManifestsOver(SmokeItems)
  /\ disk \in [Keys -> DiskStates]
  /\ pc = "start"
  /\ exitCode = -1
  /\ entries = <<>> /\ warnings = <<>> /\ checked = <<>>
  /\ failures = <<>> /\ successes = <<>> /\ skips = <<>>
  /\ AppIdle
  /\ RegIdle
  /\ SopIdle /\ HealthIdle /\ WarIdle /\ BuilderIdle /\ RtIdle
  /\ appImport \in {"ok", "error"}
  /\ healthy = FALSE
  /\ smokeRet = -1
  /\ LeadsIdle /\ CvIdle

\* The keys of the records with one of the verdicts, in order.
RECURSIVE KeysWith(_, _)
KeysWith(results, verdicts) ==
  IF results = <<>> THEN <<>>
  ELSE (IF Head(results).verdict \in verdicts THEN <<Head(results).key>> ELSE <<>>)
         \o KeysWith(Tail(results), verdicts)

\* main: __import__("app"); smoke.main(); print("HEALTHY: ..."). An exception
\* of the import and the sys.exit(1) of _load_tools_entries end the process.
HealthAppMain ==
  /\ prog = "health_app" /\ pc = "start"
  /\ pc' = "exit"
  /\ LET usable == toolsYaml.shape \in {"list", "map"}
         result == IF usable THEN LoadItems(toolsYaml.items, <<>>) ELSE <<>>
         results == [i \in 1..Len(result) |-> CheckResult(result[i])]
         fails == KeysWith(results, {"BAD_import", "BAD_render"})
     IN IF appImport = "error"
          THEN /\ exitCode' = 1
               /\ UNCHANGED <<smokeVars, healthy, smokeRet>>
        ELSE IF result = <<>>
          THEN /\ exitCode' = 1
               /\ entries' = result
               /\ warnings' = IF usable THEN LoadWarnings(toolsYaml.items) ELSE <<>>
               /\ UNCHANGED <<checked, failures, successes, skips, healthy, smokeRet>>
        ELSE /\ entries' = result
             /\ warnings' = LoadWarnings(toolsYaml.items)
             /\ checked' = results
             /\ failures' = fails
             /\ successes' = KeysWith(results, {"OK"})
             /\ skips' = KeysWith(results, {"SKIP_disabled", "SKIP_absent"})
             /\ smokeRet' = SmokeReturn(fails)
             /\ healthy' = TRUE
             /\ exitCode' = 0
  /\ UNCHANGED <<envVars, appVars, regFiles, regVars, sopVars, healthVars, warVars, builderVars,
                 rtVars, appImport, leadsVars, cvVars>>

HaNext == HealthAppMain

SpecHealthApp == HaInit /\ [][HaNext]_vars

\* ------------------------------------------------------------------- leads
\* streamlit_app/tools/leads.py, SQLite backend: the leads table has the
\* column email declared UNIQUE.

MaxRows == 2
LeadRows == [email : {"e1", "e2"}, name : {"n1", "n2"}]
UniqueEmails(rows) == \A i, j \in 1..Len(rows) : rows[i].email = rows[j].email => i = j
\* The data frames handed to save_df: the table as loaded, edited, with rows
\* added by the form or appended from an uploaded CSV.
DataFrames == SeqsUpTo(LeadRows, MaxRows)

\* df.to_sql(..., if_exists="append"): the rows are inserted in one
\* transaction; a violation of UNIQUE raises and none of them is kept.
ToSql(table, df) ==
  IF UniqueEmails(table \o df) THEN [ok |-> TRUE, table |-> table \o df]
  ELSE [ok |-> FALSE, table |-> table]

\* _save_df_sqlite, lines 116-121: DELETE FROM leads, commit, to_sql; an
\* exception of any of them is shown. dbOk: the DELETE goes through (the
\* database is not locked).
SaveDfSqlite(table, df, dbOk) ==
  IF ~dbOk THEN [table |-> table, msg |-> "save_failed"]
  ELSE LET deleted == <<>>
           ins == ToSql(deleted, df)
       IN [table |-> ins.table, msg |-> IF ins.ok THEN "saved" ELSE "save_failed"]

LeadsInit ==
  /\ prog = "leads"
  /\ toolsYaml = [shape |-> "missing", items |-> <<>>]
  /\ disk = [n \in Keys |-> "absent"]
  /\ pc = "serving"
  /\ exitCode = -1
  /\ entries = <<>> /\ warnings = <<>> /\ checked = <<>>
  /\ failures = <<>> /\ successes = <<>> /\ skips = <<>>
  /\ AppIdle
  /\ RegIdle
  /\ SopIdle /\ HealthIdle /\ WarIdle /\ BuilderIdle /\ RtIdle
  /\ HaIdle /\ CvIdle
  /\ leadsTable \in {t \in DataFrames : UniqueEmails(t)}
  /\ leadsDf = <<>>
  /\ leadsMsg = "none"

\* app: one of the buttons that end in save_df(df), SQLite backend.
LeadsSave ==
  /\ prog = "leads"
  /\ \E df \in DataFrames, dbOk \in BOOLEAN :
     \E saved \in {SaveDfSqlite(leadsTable, df, dbOk)} :
       /\ leadsDf' = df
       /\ leadsTable' = saved.table
       /\ leadsMsg' = saved.msg
  /\ UNCHANGED <<envVars, pc, exitCode, smokeVars, appVars, regFiles, regVars, sopVars, healthVars,
                 warVars, builderVars, rtVars, haVars, cvVars>>

LeadsNext == LeadsSave

SpecLeads == LeadsInit /\ [][LeadsNext]_vars

\* ----------------------------------------------------------- cv_builder_pro
\* streamlit_app/tools/cv_builder_pro.py, the Experience and Education tabs.
\* cvData holds, for each section, the bullets list of each of its entries.

MaxRoles == 3
CvSections == {"experience", "education"}
\* What the text area of an entry holds when a button is clicked.
CvTexts == {<<>>, <<" ">>, <<"x">>, <<" ", "y", " ">>}

\* render, lines 421-426 and 464-468: a section without entries gets a blank
\* one, whose bullets are [].
WithBlankEntry(list) == IF list = <<>> THEN <<<<>>>> ELSE list

\* One run of the script without a click.
CvRerun(data) == [sec \in CvSections |-> WithBlankEntry(data[sec])]

\* render, lines 443-445 and 481-483: (job["bullets"] or []).append(text). The
\* or gives the stored list when it is non-empty and a new list, which nothing
\* else refers to, when it is empty.
AddBullet(bullets, text) ==
  IF bullets # <<>> THEN Append(bullets, StripCh(text, " ")) ELSE bullets

CvInit ==
  /\ prog = "cv_builder_pro"
  /\ toolsYaml = [shape |-> "missing", items |-> <<>>]
  /\ disk = [n \in Keys |-> "absent"]
  /\ pc = "serving"
  /\ exitCode = -1
  /\ entries = <<>> /\ warnings = <<>> /\ checked = <<>>
  /\ failures = <<>> /\ successes = <<>> /\ skips = <<>>
  /\ AppIdle
  /\ RegIdle
  /\ SopIdle /\ HealthIdle /\ WarIdle /\ BuilderIdle /\ RtIdle
  /\ HaIdle /\ LeadsIdle
  /\ cvData = [experience |-> <<>>, education |-> <<>>]
  /\ cvLast = NoClick

CvFrame ==
  UNCHANGED <<envVars, pc, exitCode, smokeVars, appVars, regFiles, regVars, sopVars, healthVars,
              warVars, builderVars, rtVars, haVars, leadsVars>>

\* The page is opened or rerun without a click.
CvRender ==
  /\ prog = "cv_builder_pro"
  /\ cvData' = CvRerun(cvData)
  /\ cvLast' = NoClick
  /\ CvFrame

\* "Add bullet" of the i-th entry of a section is clicked: with text that is
\* not blank, the append and st.experimental_rerun().
CvAddBullet ==
  /\ prog = "cv_builder_pro"
  /\ \E sec \in CvSections, text \in CvTexts :
     \E i \in 1..Len(WithBlankEntry(cvData[sec])) :
       LET shown == CvRerun(cvData)
           before == shown[sec][i]
       IN /\ cvData' = IF StripCh(text, " ") # <<>>
                         THEN [shown EXCEPT ![sec][i] = AddBullet(before, text)]
                         ELSE shown
          /\ cvLast' = [kind |-> "add_bullet", section |-> sec, index |-> i, text |-> text,
                        before |-> before]
  /\ CvFrame

\* "Add another role" / "Add another education" is clicked.
CvAddEntry ==
  /\ prog = "cv_builder_pro"
  /\ \E sec \in CvSections :
       LET shown == CvRerun(cvData)
       IN /\ Len(shown[sec]) < MaxRoles
          /\ cvData' = [shown EXCEPT ![sec] = Append(@, <<>>)]
          /\ cvLast' = [NoClick EXCEPT !.kind = "add_entry", !.section = sec]
  /\ CvFrame

CvNext == CvRender \/ CvAddBullet \/ CvAddEntry

SpecCv == CvInit /\ [][CvNext]_vars

\* Every program of the repository that is modelled.
Init == SmokeInit \/ AppInit \/ LoaderInit \/ RegInit \/ SopInit \/ HealthInit \/ WarInit \/ BuilderInit \/ RtInit \/ HaInit \/ LeadsInit \/ CvInit
Next == SmokeNext \/ AppNext \/ LoaderNext \/ RegNext \/ SopNext \/ HealthNext \/ WarNext \/ BuilderNext \/ RtNext \/ HaNext \/ LeadsNext \/ CvNext
Spec == Init /\ [][Next]_vars

\* ------------------------------------------------------------- properties

UsableItems(k) ==
  {i \in 1..Len(toolsYaml.items) : toolsYaml.items[i].form # "bad" /\ toolsYaml.items[i].key = k}
\* The keys that more than one item of the manifest carries.
DuplicatedKeys == {k \in Keys : Cardinality(UsableItems(k)) > 1}
\* The module of the first manifest item with key k.
FirstModule(k) ==
  LET i == CHOOSE x \in UsableItems(k) : \A y \in UsableItems(k) : x <= y
      it == toolsYaml.items[i]
  IN IF it.module = NoModule THEN ToolsPath(k) ELSE it.module
BadVerdicts == {"BAD_import", "BAD_render"}
SkipVerdicts == {"SKIP_disabled", "SKIP_absent"}

\* C1: when two items of tools.yaml share a key, loading the manifest in
\* smoke_tools emits exactly one duplicate-key warning per duplicated key and
\* the entry keeps the module of the earlier item.
C1_DuplicateKeyReported ==
  (prog = "smoke" /\ pc # "load" /\ toolsYaml.shape = "list") =>
    /\ Cardinality({i \in 1..Len(warnings) : warnings[i] = "duplicate_key"})
         = Cardinality(DuplicatedKeys)
    /\ \A k \in DuplicatedKeys : \A i \in 1..Len(entries) :
         entries[i].key = k => entries[i].module = FirstModule(k)

\* C5: smoke_tools.main records an enabled entry as SKIP only if neither its
\* dotted module nor its fallback file tools/<key>.py exists; an entry whose
\* module or file exists but errors on import, or lacks a valid render, is
\* recorded as a failure.
C5_SkipOnlyIfAbsent ==
  prog = "smoke" =>
    \A i \in 1..Len(checked) :
      LET r == checked[i]
          m == disk[r.module.name]
          f == disk[r.key]
      IN r.verdict # "SKIP_disabled" =>
           /\ r.verdict = "SKIP_absent" => (~Exists(m) /\ ~IsFile(f))
           /\ (Exists(m) /\ ~(Imports(m) /\ RenderOf(m) = "zeroarg")) => r.verdict \in BadVerdicts
           /\ (~Exists(m) /\ IsFile(f) /\ ~(Imports(f) /\ RenderOf(f) = "zeroarg"))
                => r.verdict \in BadVerdicts

\* C6: with at least one usable entry, smoke_tools.main returns 1 if and only
\* if an enabled entry was recorded as a failure; a run whose entries are all
\* OK or skipped returns 0.
C6_ExitOneIffFailure ==
  (prog = "smoke" /\ pc = "exit" /\ entries # <<>>) =>
    /\ exitCode = 1 <=> \E i \in 1..Len(checked) : checked[i].verdict \in BadVerdicts
    /\ (\A i \in 1..Len(checked) : checked[i].verdict \in SkipVerdicts \cup {"OK"}) => exitCode = 0
    /\ Len(checked) = Len(entries)
C6_Witness ==
  /\ prog = "smoke" /\ pc = "exit" /\ exitCode = 0
  /\ \E i \in 1..Len(checked) : checked[i].verdict = "SKIP_absent"
  /\ \E i \in 1..Len(checked) : checked[i].verdict = "OK"

\* --- the interactive dispatchers

Dispatched == last.by \in {"app", "tool_loader"} /\ last.module # NoModule
ErrorShown(d) == \E i \in 1..Len(d.msgs) : d.msgs[i].level = "error"
\* The disk state of the unit the dotted import of d.module finds, if it imports.
DottedTarget(d) == IF d.module.pkg = "tools" THEN disk[d.module.name] ELSE "absent"
\* The dotted module is not there, nor any file the dispatcher falls back to.
NowhereToBeFound(d) ==
  /\ DottedTarget(d) = "absent"
  /\ d.by = "tool_loader" => ~IsFile(disk[d.key])
\* render() was called and came back without raising.
RenderReturned(d) == d.calls > 0 /\ d.caught = "none" /\ d.raised = "none"

\* C2: for a selected key whose module imports and exposes a render without
\* required parameters, one dispatch (tool_loader.render_or_placeholder,
\* app.render_selected_tool) calls render exactly once; when render returns
\* normally no exception reaches the caller and no error message is shown.
C2_ValidToolRenderedOnce ==
  (Dispatched /\ Imports(DottedTarget(last)) /\ RenderOf(DottedTarget(last)) = "zeroarg") =>
    /\ last.calls = 1
    /\ (last.caught # "render_exception" /\ last.raised # "render_exception") =>
         (last.raised = "none" /\ ~ErrorShown(last) /\ last.outcome = "rendered")
C2_Witness ==
  /\ Dispatched /\ last.by = "app" /\ prev.outcome = "rendered"
  /\ Imports(DottedTarget(last)) /\ RenderOf(DottedTarget(last)) = "zeroarg"
  /\ last.calls = 1 /\ last.outcome = "rendered"

\* C3: for a selected key whose dotted module cannot be imported
\* (ModuleNotFoundError) and whose fallback file is absent, dispatch shows a
\* non-fatal informational placeholder, calls no render and raises nothing;
\* a following dispatch of another, resolvable key renders that tool.
C3_MissingToolPlaceholder ==
  /\ (Dispatched /\ NowhereToBeFound(last)) =>
       /\ last.msgs # <<>>
       /\ \A i \in 1..Len(last.msgs) : last.msgs[i].level = "info"
       /\ last.calls = 0
       /\ last.raised = "none"
  /\ (/\ Dispatched /\ prev.outcome \in {"not_deployed", "import_failed"}
      /\ prev.key # last.key
      /\ Imports(DottedTarget(last)) /\ RenderOf(DottedTarget(last)) = "zeroarg") =>
       last.calls = 1

\* C4: for a resolved module whose render has a required positional
\* parameter, every dispatcher rejects it with a configuration error and
\* never calls render; no TypeError is raised.
C4_RequiredArgRejected ==
  (Dispatched /\ DottedTarget(last) = "file_reqarg") =>
    /\ last.calls = 0
    /\ \E i \in 1..Len(last.msgs) : last.msgs[i] = Msg("error", "required_args")
    /\ last.caught # "TypeError"
    /\ last.raised = "none"

\* C8: whatever the state of the selected key's module, the resolution step
\* of the interactive dispatchers ends with a module object or with a message
\* the user sees; no exception raised by the import reaches the caller.
C8_ImportNeverRaises ==
  Dispatched =>
    /\ last.raised \notin {"ModuleNotFoundError", "error"}
    /\ (last.primary # "ok" /\ last.fallback # "ok") =>
         /\ \E i \in 1..Len(last.msgs) : last.msgs[i].level \in {"error", "info"}
         /\ last.calls = 0
C8_Witness ==
  /\ Dispatched /\ last.by = "tool_loader"
  /\ last.primary = "ModuleNotFoundError" /\ last.fallback = "error"
  /\ last.raised = "none" /\ ErrorShown(last)

\* --- the manifest and the loaders, across the programs

\* C7: with tools.yaml missing, smoke_tools exits with a non-zero code before
\* it tries any import; the app shows an error in the page, goes on with an
\* empty tool list (nothing to select, nothing imported) and the page render
\* raises nothing.
C7_MissingManifest ==
  toolsYaml.shape = "missing" =>
    /\ (prog = "smoke" /\ pc # "load") =>
         (pc = "exit" /\ exitCode > 0 /\ entries = <<>> /\ checked = <<>>)
    /\ (prog = "app" /\ last.by = "app") =>
         /\ \E i \in 1..Len(last.msgs) : last.msgs[i] = Msg("error", "config_missing")
         /\ \E i \in 1..Len(last.msgs) : last.msgs[i] = Msg("info", "no_tools")
         /\ last.outcome = "no_selection"
         /\ last.primary = "none" /\ last.calls = 0
         /\ last.raised = "none"
C7_Witness ==
  /\ prog = "app" /\ toolsYaml.shape = "missing"
  /\ last.by = "app" /\ last.outcome = "no_selection" /\ prev.outcome = "no_selection"
  /\ ErrorShown(last)

StoredRecord(k) == IF stateFile.kind = "object" THEN stateFile.data[k] ELSE NoRecord
StoredSignature(k) == StoredRecord(k).signature
\* This step is main returning 0.
RegCompletes == prog = "reg_watch" /\ pc = "loop" /\ pc' = "exit" /\ exitCode' = 0
\* Some document fetched in this run has a signature that is not the stored one.
ChangedFromStored ==
  \E i \in 1..Len(fetched) :
    fetched[i].signature # 0 /\ fetched[i].signature # StoredSignature(fetched[i].key)
\* The positions in seq, a sequence of records with a key, that carry key k.
WithKey(seq, k) == {i \in 1..Len(seq) : seq[i].key = k}
LastOf(S) == CHOOSE i \in S : \A j \in S : j <= i

\* C11: a run of reg_watch rewrites the state file and appends a section to
\* the log if and only if a successfully fetched document has a signature
\* different from its stored one; with no change neither file is written;
\* the two writes happen together, and no other step writes either file.
C11_WritesIffChanged ==
  [][prog = "reg_watch" =>
       IF RegCompletes
         THEN /\ ChangedFromStored <=> writes' = <<"state", "log">>
              /\ ChangedFromStored =>
                   (stateFile' = state /\ stateFile' # stateFile /\ Len(logMd') = Len(logMd) + 1)
              /\ ~ChangedFromStored => (writes' = <<>> /\ UNCHANGED <<stateFile, logMd>>)
         ELSE UNCHANGED <<stateFile, logMd>> /\ writes' = <<>>]_vars
C11_Witness ==
  /\ prog = "reg_watch" /\ pc = "exit" /\ exitCode = 0 /\ run = 2
  /\ writes = <<>> /\ Len(logMd) = 1
  /\ \E i \in 1..Len(fetched) : fetched[i].signature # 0

\* C12: watch_log.md is append-only over the runs: a step leaves it as it is
\* or adds one section after the sections already there; a run adds at most
\* one section, carrying its time and one entry per change detected in it.
C12_LogAppendOnly ==
  [][prog = "reg_watch" =>
       \/ logMd' = logMd
       \/ /\ Len(logMd') = Len(logMd) + 1
          /\ SubSeq(logMd', 1, Len(logMd)) = logMd
          /\ \A i \in 1..Len(logMd) : logMd[i].at < run
          /\ logMd'[Len(logMd')] = [at |-> run, changes |-> updated]
          /\ updated # <<>>]_vars
C12_Witness ==
  /\ prog = "reg_watch" /\ pc = "exit" /\ run = 2
  /\ Len(logMd) = 2 /\ Len(logMd[2].changes) = 2

\* C13 (as claimed): after a run the stored record of every document that was
\* checked successfully is the record of its latest check (its signature,
\* checked_at of this run), whether or not the signature changed.
C13_RecordOfLatestCheck ==
  (prog = "reg_watch" /\ pc = "exit" /\ exitCode = 0) =>
    \A k \in DocKeys :
      LET ok == {i \in WithKey(fetched, k) : fetched[i].signature # 0}
      IN ok # {} =>
           /\ stateFile.kind = "object"
           /\ stateFile.data[k] = [signature |-> fetched[LastOf(ok)].signature, checked_at |-> run]

\* C13 (amended): the stored record of a key is overwritten wholesale with the
\* record of a check only when that check finds a signature different from
\* the one held for the key; a key whose checks of this run all return the
\* stored signature keeps its record, checked_at included, as it was.
C13_RecordOverwrittenOnChange ==
  [][RegCompletes =>
       \A k \in DocKeys :
         LET ups == WithKey(updated, k)
             ok == {i \in WithKey(fetched, k) : fetched[i].signature # 0}
         IN /\ ups # {} =>
                 stateFile'.data[k] = [signature |-> updated[LastOf(ups)].signature, checked_at |-> run]
            /\ ups = {} => stateFile'.data[k] = StoredRecord(k)
            /\ (\A i \in ok : fetched[i].signature = StoredSignature(k)) =>
                 stateFile'.data[k] = StoredRecord(k)
            /\ (ok # {} /\ fetched[LastOf(ok)].signature # StoredSignature(k)) =>
                 stateFile'.data[k] = [signature |-> fetched[LastOf(ok)].signature, checked_at |-> run]]_vars
C13_Witness ==
  /\ prog = "reg_watch" /\ pc = "exit" /\ exitCode = 0 /\ run = 2
  /\ writes = <<"state", "log">>
  /\ \E i \in 1..Len(fetched) :
       /\ fetched[i].signature # 0
       /\ stateFile.data[fetched[i].key] = [signature |-> fetched[i].signature, checked_at |-> 1]

\* --- sop_watch

\* An expected SOP of department d with no matching file under its sop_dir.
SopsUnmatched(d) ==
  {i \in 1..Len(d.expected) :
     ~(d.sop_dir /\ \E f \in sopFiles : Contains(LowerStr(d.expected[i]), LowerStr(f)))}

\* C14: sop_watch exits with 1 if and only if a configured department has an
\* expected SOP with no matching file under its sop_dir, and with 0 otherwise
\* (departments.yaml missing or listing no departments included); every
\* expected SOP is in exactly one of the department's present/missing lists.
C14_ExitOneIffMissing ==
  (prog = "sop_watch" /\ pc = "exit") =>
    /\ exitCode = 1 <=>
         \E i \in 1..Len(deptsYaml.depts) : SopsUnmatched(deptsYaml.depts[i]) # {}
    /\ exitCode \in {0, 1}
    /\ exitCode = 0 =>
         /\ Len(sopOut) = Len(deptsYaml.depts)
         /\ \A i \in 1..Len(sopOut) :
              Len(sopOut[i].present) + Len(sopOut[i].missing) = Len(deptsYaml.depts[i].expected)

\* --- the CI scripts

\* The item has no module and no file: nothing is deployed for it.
Unbuilt(it) == disk[it.module.name] = "absent" /\ ~IsFile(disk[it.key])
\* The item's module is there, imports and has a render() without parameters.
Built(it) == disk[it.module.name] \in {"file_valid", "pkg_valid"}
\* tools.yaml is a list of {key, module} items with distinct keys, each built
\* or unbuilt, at least one unbuilt; the package markers and the import path
\* are in order.
OnlyUnbuiltIrregular ==
  /\ toolsYaml.shape = "list" /\ toolsYaml.items # <<>>
  /\ DistinctKeys(toolsYaml.items)
  /\ \A i \in 1..Len(toolsYaml.items) :
       LET it == toolsYaml.items[i]
       IN /\ it.form = "keyed" /\ it.enabled = "absent" /\ it.module # NoModule
          /\ Built(it) \/ Unbuilt(it)
  /\ \E i \in 1..Len(toolsYaml.items) : Unbuilt(toolsYaml.items[i])
  /\ prog = "health_report" => (healthEnv.markers /\ healthEnv.onPath)

\* C15: for a tools.yaml whose only irregularity is an entry without module
\* or file, smoke_tools and health_report both record that entry as
\* non-blocking and exit 0.
C15_UnbuiltToolNeverFails ==
  (pc = "exit" /\ OnlyUnbuiltIrregular) =>
    /\ prog = "smoke" =>
         /\ exitCode = 0
         /\ \A i \in 1..Len(checked) : checked[i].verdict \in {"OK", "SKIP_absent"}
    /\ prog = "health_report" =>
         /\ exitCode = 0
         /\ FailedChecks(report) = 0

\* --- outbound HTTP

\* How often seq holds x.
Count(seq, x) == Cardinality({i \in 1..Len(seq) : seq[i] = x})

\* C16 (as claimed): every outbound HTTP request is made at most once per
\* operation (HEAD, then at most one ranged GET, in reg_watch); the same
\* request is never issued again after a failed or unsuccessful attempt.
C16_NoRequestRepeated ==
  /\ prog = "reg_watch" =>
       \A i \in 1..Len(fetched) : fetched[i].requests \in {<<>>, <<"HEAD">>, <<"HEAD", "GET">>}
  /\ prog = "war_room" =>
       \A t \in Workflows \cup {"api"} : Count(httpLog, t) <= 1

\* C16 (amended): reg_watch.head_metadata makes one HEAD and, only after the
\* HEAD raised, one ranged GET; war_room.fetch_api_statuses makes one GET;
\* war_room.fetch_badge_status makes the badge GET once and makes the same GET
\* a second time, and no third, exactly when the first attempt raised or
\* answered with a status other than 200.
C16_OneRetryOfBadgeOnly ==
  /\ prog = "reg_watch" =>
       \A i \in 1..Len(fetched) : fetched[i].requests \in {<<>>, <<"HEAD">>, <<"HEAD", "GET">>}
  /\ (prog = "war_room" /\ httpLog # <<>>) =>
       /\ Count(httpLog, "api") = 1
       /\ \A w \in Workflows :
            /\ statuses[w].source = "api" => Count(httpLog, w) = 0
            /\ statuses[w].source = "badge" =>
                 Count(httpLog, w) =
                   IF warNet.badge[w][1] \in {"non200", "exception"} THEN 2 ELSE 1
C16_Witness ==
  /\ prog = "war_room"
  /\ Count(httpLog, "smoke.yml") = 2 /\ Count(httpLog, "repo_doctor.yml") = 1
  /\ statuses["smoke.yml"] = [conclusion |-> "success", source |-> "badge"]

\* --- builder

\* C17: from a tools.yaml with distinct keys, whatever the registrations and
\* however the sessions interleave, the keys of tools.yaml stay pairwise
\* distinct; a step changes the entries only by appending
\* {key, module: tools.<key>} for a key no entry has; a save for a key that
\* tools.yaml already has leaves the entries as they are.
C17_KeysStayDistinct ==
  /\ [](prog = "builder" =>
          \A i, j \in 1..Len(repoYaml.tools) :
            repoYaml.tools[i].key = repoYaml.tools[j].key => i = j)
  /\ [][prog = "builder" =>
          \/ repoYaml'.tools = repoYaml.tools
          \/ \E x \in Sessions :
               /\ sess[x].pc = "fetched"
               /\ sess[x].key \notin EntryKeys(repoYaml.tools)
               /\ repoYaml'.tools = Append(repoYaml.tools, ToolEntry(sess[x].key))]_vars
C17_Witness ==
  /\ prog = "builder"
  /\ Len(repoYaml.tools) = 3
  /\ sess["s1"].outcome = "registered" /\ ~sess["s1"].appended
  /\ sess["s2"].outcome = "save_error"

\* --- manifest round trip

\* The records read back are the entries written: as many, with the same
\* keys and modules in the same order; the second parse gives the same.
ReadBackIdentical ==
  /\ Len(cleaned) = Len(ydata)
  /\ \A i \in 1..Len(ydata) :
       /\ StrValue(cleaned[i].key) = ydata[i].key
       /\ StrValue(cleaned[i].module) = ydata[i].module
  /\ reparsed = cleaned
Unpadded(value) == value.t = "str" /\ StripCh(value.v, " ") = value.v

\* C18 (as stated): a manifest of N entries with pairwise distinct non-empty
\* keys and non-empty modules, written by save_yaml_to_main and read back by
\* yaml load and normalize_tools, gives N records with the same keys and
\* modules in the same order, and a second parse gives the same records.
C18_RoundTripIdentical == (prog = "manifest_io" /\ pc = "done") => ReadBackIdentical

\* C18 (amended): the same, for manifests whose keys and modules are strings
\* that neither start nor end with whitespace.
C18_RoundTripOfUnpadded ==
  (/\ prog = "manifest_io" /\ pc = "done"
   /\ \A i \in 1..Len(ydata) : Unpadded(ydata[i].key) /\ Unpadded(ydata[i].module))
    => ReadBackIdentical
C18_Witness ==
  /\ prog = "manifest_io" /\ pc = "done"
  /\ Len(ydata) = 2
  /\ \A i \in 1..Len(ydata) : Unpadded(ydata[i].key) /\ Unpadded(ydata[i].module)
  /\ yamlText[1].key.style = "single"
  /\ Len(cleaned) = 2

\* --- the render contract

\* The disk state of the module an OK of smoke_tools was given to.
SmokeLoaded(r) == IF r.primary = "ok" THEN disk[r.module.name] ELSE disk[r.key]

\* C19: a render accepted by the validation (smoke_tools._validate_render
\* returning ok, the signature check of tool_loader.render_or_placeholder
\* passing) has no required parameter, keyword-only ones included, and
\* calling it without arguments raises no TypeError for a missing argument.
C19_AcceptedRenderHasNoRequiredParam ==
  /\ prog = "smoke" =>
       \A i \in 1..Len(checked) :
         checked[i].verdict = "OK" => RenderOf(SmokeLoaded(checked[i])) = "zeroarg"
  /\ (Dispatched /\ last.by = "tool_loader" /\ last.calls > 0) => last.raised # "TypeError"

\* render() was called and raised.
RenderRaised(d) ==
  /\ d.calls > 0
  /\ d.caught \in {"render_exception", "TypeError"} \/ d.raised \in {"render_exception", "TypeError"}

\* C20: an exception raised inside a tool's render() during a dispatch
\* (app.render_selected_tool, tool_loader.render_or_placeholder) becomes an
\* error message on the page and does not leave the dispatcher.
C20_RenderExceptionContained ==
  (Dispatched /\ RenderRaised(last)) => (last.raised = "none" /\ ErrorShown(last))

\* --- builder: the order of the remote writes

IsIn(seq, x) == \E i \in 1..Len(seq) : seq[i] = x

SkippedAsDisabled(key) ==
  \E j \in 1..Len(checked) :
    /\ checked[j].key = key
    /\ checked[j].verdict = "SKIP_disabled"
    /\ checked[j].primary = "none" /\ checked[j].fallback = "none"
    /\ IsIn(skips, key) /\ ~IsIn(failures, key)

\* C22: an entry of tools.yaml with enabled: false, in each shape that can
\* carry the flag, is not imported by smoke_tools (no dotted import, no file
\* fallback), is counted as a skip, and does not make the exit code non-zero.
C22_DisabledEntrySkipped ==
  (prog = "smoke" /\ pc = "exit" /\ toolsYaml.shape \in {"list", "map"}) =>
    /\ \A i \in 1..Len(toolsYaml.items) :
         (toolsYaml.items[i].form = "keyed" /\ toolsYaml.items[i].enabled = "false")
           => SkippedAsDisabled(toolsYaml.items[i].key)
    /\ (\A i \in 1..Len(toolsYaml.items) :
          toolsYaml.items[i].form = "keyed" /\ toolsYaml.items[i].enabled = "false")
         => (toolsYaml.items = <<>> \/ exitCode = 0)

\* --- reg_watch: HEAD, then GET

\* C23: head_metadata makes the HEAD first and, if the HEAD is blocked (it
\* raises, or the server refuses the method), falls back to a ranged GET; no
\* GET follows a HEAD that succeeded; at most two requests are made for a
\* document; ok = False is returned only when the HEAD and the GET both failed.
C23_GetWhenHeadBlocked ==
  prog = "reg_watch" =>
    \A i \in 1..Len(fetched) :
      fetched[i].net # NoFetch =>
        /\ Len(fetched[i].requests) \in {1, 2} /\ fetched[i].requests[1] = "HEAD"
        /\ fetched[i].net.head = "ok" => fetched[i].requests = <<"HEAD">>
        /\ fetched[i].net.head \in {"blocked", "fail"} => fetched[i].requests = <<"HEAD", "GET">>
        /\ ~fetched[i].ok => (fetched[i].net.head = "fail" /\ fetched[i].net.get = "fail")

\* --- war_room: API mode and badge mode

\* C24: the War Room calls the GitHub REST API only when a token is set;
\* without a token every status shown has source "badge" and none has source
\* "api"; in both modes each workflow of WORKFLOW_ORDER gets one status.
C24_ApiOnlyWithToken ==
  (prog = "war_room" /\ httpLog # <<>>) =>
    /\ ~warToken =>
         /\ Count(httpLog, "api") = 0
         /\ \A w \in Workflows : statuses[w].source = "badge"
    /\ \A w \in Workflows : statuses[w].source \in {"api", "badge"}

\* --- health_app

\* C25: health_app.main prints HEALTHY only if importing the app raised
\* nothing and the smoke test reported no failed tool (smoke_tools.main
\* returned 0); with a failing tool HEALTHY is not printed.
C25_HealthyOnlyIfSmokePassed ==
  (prog = "health_app" /\ healthy) => (appImport = "ok" /\ smokeRet = 0 /\ failures = <<>>)

\* --- smoke_tools and the app on the same manifest

\* The entries smoke_tools builds from the manifest the app has read.
SmokeEntries == LoadItems(toolsYaml.items, <<>>)

\* C26: for every tools.yaml and every key the app dispatches, the module
\* path smoke_tools validates for the key is the module path that
\* app.render_selected_tool imports for it, also when the key occurs more
\* than once in the manifest.
C26_SameModuleForKey ==
  (Dispatched /\ last.by = "app") =>
    /\ HasKey(SmokeEntries, last.key)
    /\ SmokeEntries[IndexOf(SmokeEntries, last.key)].module = last.module

\* --- reg_watch: a run that sees what the run before saw

\* This run got a response for every document of the watchlist, and each has
\* the signature the run before got for it.
SameMetadataAsBefore ==
  /\ run > 1 /\ pc = "exit" /\ exitCode = 0
  /\ docs # <<>>
  /\ Len(fetched) = Len(docs) /\ Len(prevFetched) = Len(fetched)
  /\ \A i \in 1..Len(fetched) :
       /\ fetched[i].signature # 0
       /\ fetched[i].key = prevFetched[i].key
       /\ fetched[i].signature = prevFetched[i].signature

\* C27: if two consecutive reg_watch runs observe identical response metadata
\* for every document of the watchlist, the second run detects no change and
\* writes neither the state file nor the log, for every watchlist, one in
\* which two documents share a key included.
C27_SecondRunQuiet ==
  (prog = "reg_watch" /\ SameMetadataAsBefore) => (updated = <<>> /\ writes = <<>>)

\* --- leads

\* C28: a save to the SQLite backend that fails (the rows violate the UNIQUE
\* constraint on email, say) leaves the rows stored before it in the table.
C28_FailedSaveKeepsRows ==
  [][(prog = "leads" /\ leadsMsg' = "save_failed") => leadsTable' = leadsTable]_vars

\* --- cv_builder_pro

\* C29: a click on "Add bullet" with text that is not blank, for an
\* experience or education entry, appends the stripped text to the bullets of
\* that entry in session state: the list is one longer and ends with the
\* text, also when it was empty before the click.
C29_AddBulletAppends ==
  (/\ prog = "cv_builder_pro" /\ cvLast.kind = "add_bullet"
   /\ StripCh(cvLast.text, " ") # <<>>)
    => cvData[cvLast.section][cvLast.index] = Append(cvLast.before, StripCh(cvLast.text, " "))
====
